---- MODULE Spec2Model ----
(***************************************************************************)
(* Model of the job queue and its worker in transcript_python_bot/bot.py,  *)
(* of the error classification and the chunk pipeline (handle_transcript)  *)
(* of transcript_handler.py, and of the markdown-to-blocks conversion of   *)
(* notion.py, of the retry loop of get_transcript.fetch_transcript and of  *)
(* the webhook endpoint with its _BotRuntime (webhook.py).                 *)
(*                                                                         *)
(* Spec and LiveSpec are the queue and the worker; HandlerSpec is the     *)
(* life of one text job from the moment the worker awaits its pipeline:    *)
(* handle_transcript, the upload of pipeline.py and the messages of the    *)
(* worker; TailSpec is improve_readability from the return of _chat on;    *)
(* BlockSpec is one call of send_markdown_to_notion; ReportSpec is one job *)
(* of either kind from the end of its pipeline on, with the outcome of     *)
(* each notification recorded; FetchSpec and FetchLiveSpec are one call of *)
(* fetch_transcript; WebhookSpec is concurrent webhook requests.  Texts    *)
(* are sequences of characters.                                            *)
(*                                                                         *)
(* All coroutines run on one asyncio event loop, so the code between two   *)
(* awaits of a coroutine is one atomic step.  The pipeline of a job runs   *)
(* in a thread of the default executor (asyncio.to_thread) and is the only *)
(* code that runs in parallel with the event loop.  In the webhook the     *)
(* requests run in threads of the WSGI server and the application on the   *)
(* loop of the thread of _BotRuntime; a step of theirs is one call.        *)
(***************************************************************************)
EXTENDS Integers, Sequences, FiniteSets, TLC

(* ---------------- bounds ---------------- *)

\* capacity of the queue (QUEUE_MAXSIZE, any integer > 0; 20 by default)
queue_maxsize == 2

\* number of submissions that may be accepted in one behaviour
MaxJobs == 3

\* number of chats that submit
MaxChats == 2

\* the longest transcript and the largest chunk_size of the handler runs
MaxLen == 5
MaxChunkSize == 4

\* the longest markdown text of the block splitter runs
MaxMarkdownLen == 7

\* the limits of notion.py, scaled down: MAX_RICH_TEXT_CHARS is 2000 and
\* MAX_CHILDREN_BLOCKS is 99 there
MAX_RICH_TEXT_CHARS == 4
MAX_CHILDREN_BLOCKS == 2

(* ---------------- values ---------------- *)

Chats == 1..MaxChats

JobTypes == {"youtube", "text"}

JobIds == 1..MaxJobs

NoJob == [id |-> 0, chat_id |-> 0, type |-> "none"]

\* no error: the pipeline has not failed
NoErr == [exc |-> "none", body |-> "none", code |-> "none"]

\* the result of a pipeline that returned
OkResult(tr, ch) == [exc |-> "ok", body |-> tr, code |-> ch]

\* what openai's client.chat.completions.create may raise in _chat:
\* a RateLimitError with a code in its body and/or in its code attribute,
\* or another APIError
ChatFailures ==
    [exc : {"RateLimitError"},
     body : {"none", "insufficient_quota", "rate_limit_exceeded"},
     code : {"none", "insufficient_quota"}]
    \cup {[exc |-> "APIError", body |-> "none", code |-> "none"]}

\* failures of a pipeline outside _chat: an empty result of a transform
\* (ValueError), and any other exception (metadata lookup, document store,
\* prompt file, ...)
OtherFailures ==
    {[exc |-> "ValueError", body |-> "none", code |-> "none"],
     [exc |-> "Exception", body |-> "none", code |-> "none"]}

\* the exception bot.py imports from get_transcript and handles for youtube
\* jobs
TranscriptFailures ==
    {[exc |-> "NoSupportedTranscriptFound", body |-> "none", code |-> "none"]}

\* results of process_youtube_url / process_plain_text: the pipeline returns
\* (with or without a translation, with or without links to broadcast) or
\* raises
PipelineResults(type) ==
    {OkResult(tr, ch) : tr \in {"translated", "russian"},
                        ch \in (IF type = "youtube" THEN {"channel", "nochannel"}
                                                    ELSE {"nochannel"})}
    \cup ChatFailures \cup OtherFailures
    \cup (IF type = "youtube" THEN TranscriptFailures ELSE {})

(* ---------------- transcript_handler._chat ---------------- *)

\* variant: the code of a RateLimitError is not looked at
_chat_no_quota(raw) ==
    IF raw.exc = "RateLimitError" THEN "OpenAIRateLimitError" ELSE raw.exc

\* the exception class that leaves _chat when the service call raised raw
_chat(raw) ==
    IF raw.exc = "RateLimitError"
    THEN LET error_code == IF raw.body # "none" THEN raw.body ELSE raw.code
         IN  IF error_code = "insufficient_quota"
             THEN "OpenAIQuotaError"
             ELSE "OpenAIRateLimitError"
    ELSE raw.exc

\* the exception class that leaves the pipeline (handle_transcript and the
\* process_* functions catch nothing)
PipelineRaises(raw) ==
    IF raw \in ChatFailures THEN _chat(raw) ELSE raw.exc

(* ---------------- messages of the worker ---------------- *)

\* the message _process_youtube_item sends in its except clauses
YoutubeErrorMessage(cls) ==
    CASE cls = "NoSupportedTranscriptFound" -> "no_subtitles"
      [] cls = "OpenAIQuotaError" -> "quota"
      [] cls = "OpenAIRateLimitError" -> "rate_limit"
      [] OTHER -> "generic"

\* the message _process_text_item sends in its except clauses
TextErrorMessage(cls) ==
    CASE cls = "OpenAIQuotaError" -> "quota"
      [] cls = "OpenAIRateLimitError" -> "rate_limit"
      [] OTHER -> "generic"

ErrorMessage(type, cls) ==
    IF type = "youtube" THEN YoutubeErrorMessage(cls) ELSE TextErrorMessage(cls)

\* the notifications of the success path, in the order of the code
Notifications(type, res) ==
    IF type = "youtube"
    THEN <<"processing", "links">>
         \o (IF res.code = "channel" THEN <<"channel">> ELSE <<>>)
         \o <<"file_readable", "file_structure">>
         \o (IF res.body = "translated" THEN <<"file_translation">> ELSE <<>>)
    ELSE <<"links", "file_readable", "file_structure">>

\* messages that go to the submitter's chat (the broadcast goes to a channel)
SubmitterMessages ==
    {"processing", "links", "file_readable", "file_structure",
     "file_translation", "no_subtitles", "quota", "rate_limit", "generic"}

(* ---------------- state ---------------- *)

VARIABLES
    queue,      \* bot_data["queue"]: the jobs waiting, oldest first
    nextId,     \* the id of the next accepted job (ids count acceptances)
    lastReply,  \* the reply of the latest _enqueue_job call
    wpc,        \* bot_data["queue_worker_task"]: where the worker task is
    wcancel,    \* task.cancel() of the worker task: "no", "pending" (called,
                \* CancelledError not raised yet), "delivered" (raised)
    cur,        \* item of _queue_worker: the job the worker is processing
    err,        \* what the pipeline of cur raised (NoErr while it has not)
    res,        \* what the pipeline of cur returned (NoErr while it has not)
    ni,         \* the index of the notification being sent for cur
    msgs,       \* the kinds of the messages sent (attempted) for cur
    threads,    \* the jobs whose pipeline runs in an executor thread
    started,    \* history: ids of the jobs in the order queue.get returned them
    finished,   \* history: ids of the jobs in the order of queue.task_done
    reported,   \* history: the chat of the job whose outcome was sent last
    hpc,                 \* where a call of handle_transcript (and the upload
                         \* that follows it in pipeline.py) is
    original_transcript, \* handle_transcript: the argument transcript
    chunk_size,          \* handle_transcript: the argument chunk_size
    chunks,              \* handle_transcript: chunks
    idx,                 \* the number of chunks processed by the loop
    readable_parts,      \* handle_transcript: readable_parts
    current_tail,        \* handle_transcript: current_tail
    readable_transcript, \* handle_transcript: readable_transcript
    detected_language,   \* handle_transcript: detected_language
    translation_ru,      \* handle_transcript: translation_ru (None: <<>>)
    structured_markdown, \* handle_transcript: structured_markdown
    chat_result,         \* what the latest call of _chat returned
    chat_calls,          \* history: the number of calls of _chat
    herr,                \* the exception that ended the run ("none": none)
    notion_pages,        \* the number of pages created in Notion
    preserving,          \* history: every _chat call so far returned its
                         \* input up to surrounding whitespace
    chat_log,            \* history: the calls of _chat, in order
    detect_outcome,      \* history: what langdetect did for the readable text
    prompt_file,         \* the file at prompt_path: "valid" or not
    bpc,                 \* where a call of send_markdown_to_notion is
    markdown,            \* send_markdown_to_notion: the argument markdown
    md_parts,            \* _markdown_to_children_blocks: parts
    children_blocks,     \* send_markdown_to_notion: children_blocks
    nlog,                \* the notifications awaited so far, each with whether it was sent
    fpc,                 \* where a call of fetch_transcript is
    max_attempts,        \* fetch_transcript: the argument max_attempts
    attempt,             \* fetch_transcript: attempt
    last_error,          \* fetch_transcript: last_error
    flog,                \* the outcome of each transcript.fetch() so far
    sleeps,              \* the delay of each time.sleep so far
    fresult,             \* what fetch_transcript returned or raised
    secret_token,        \* _load_webhook_config: WebhookConfig.secret_token
    requests,            \* the webhook requests: header and payload of each
    rpc,                 \* where each request's call of telegram_webhook is
    status,              \* the status each request was answered with (0: not yet)
    thread_started,      \* _BotRuntime._thread: start() was called on it
    thread_starts,       \* the number of threads running _run_loop
    startup,             \* where _BotRuntime._startup is
    ready,               \* _BotRuntime._ready
    application,         \* _BotRuntime._application
    application_starts,  \* the number of times application.start() ran
    update_queue         \* application.update_queue: the requests whose update was put

qvars == <<queue, nextId, lastReply, wpc, wcancel, cur, err, res, ni, msgs,
           threads, started, finished, reported>>

hvars == <<hpc, original_transcript, chunk_size, chunks, idx, readable_parts,
           current_tail, readable_transcript, detected_language,
           translation_ru, structured_markdown, chat_result, chat_calls,
           herr, notion_pages, preserving, chat_log, detect_outcome,
           prompt_file>>

bvars == <<bpc, markdown, md_parts, children_blocks>>

\* the notifications of the job that is followed notification by notification
nvars == <<nlog>>

fvars == <<fpc, max_attempts, attempt, last_error, flog, sleeps, fresult>>

wvars == <<secret_token, requests, rpc, status, thread_started, thread_starts,
           startup, ready, application, application_starts, update_queue>>

vars == <<qvars, hvars, bvars, nvars, fvars, wvars>>

NoReply == [chat |-> 0, text |-> "none", position |-> 0]

\* no call of handle_transcript is running
HandlerIdle ==
    /\ hpc = "idle"
    /\ original_transcript = <<>>
    /\ chunk_size = 1
    /\ chunks = <<>>
    /\ idx = 0
    /\ readable_parts = <<>>
    /\ current_tail = <<>>
    /\ readable_transcript = <<>>
    /\ detected_language = "none"
    /\ translation_ru = <<>>
    /\ structured_markdown = <<>>
    /\ chat_result = <<>>
    /\ chat_calls = 0
    /\ herr = "none"
    /\ notion_pages = 0
    /\ preserving = TRUE
    /\ chat_log = <<>>
    /\ detect_outcome = "none"
    /\ prompt_file = "valid"

\* no call of send_markdown_to_notion is running
BlockIdle ==
    /\ bpc = "idle"
    /\ markdown = <<>>
    /\ md_parts = <<>>
    /\ children_blocks = <<>>

\* build_application: an empty queue and no worker task
QueueInit ==
    /\ queue = <<>>
    /\ nextId = 1
    /\ lastReply = NoReply
    /\ wpc = "none"
    /\ wcancel = "no"
    /\ cur = NoJob
    /\ err = NoErr
    /\ res = NoErr
    /\ ni = 0
    /\ msgs = <<>>
    /\ threads = {}
    /\ started = <<>>
    /\ finished = <<>>
    /\ reported = 0

\* no notification is followed
NotifyIdle == nlog = <<>>

\* no call of fetch_transcript
FetchIdle ==
    /\ fpc = "idle"
    /\ max_attempts = 0
    /\ attempt = 0
    /\ last_error = "none"
    /\ flog = <<>>
    /\ sleeps = <<>>
    /\ fresult = [exc |-> "none", text |-> <<>>]

\* no webhook request
WebhookIdle ==
    /\ secret_token = "none"
    /\ requests = <<>>
    /\ rpc = <<>>
    /\ status = <<>>
    /\ thread_started = FALSE
    /\ thread_starts = 0
    /\ startup = "none"
    /\ ready = FALSE
    /\ application = "none"
    /\ application_starts = 0
    /\ update_queue = <<>>

Init ==
    /\ QueueInit
    /\ HandlerIdle
    /\ BlockIdle
    /\ NotifyIdle
    /\ FetchIdle
    /\ WebhookIdle

(* ---------------- the queue (asyncio.Queue) ---------------- *)

\* variant: the queue is built one slot too large
maxsize_off_by_one == queue_maxsize + 1

\* build_application: asyncio.Queue(maxsize=limits.queue_maxsize)
maxsize == queue_maxsize

\* variant: the queue reports full one item early
full_early(q) == Len(q) + 1 >= maxsize

\* queue.full(): a queue whose maxsize is <= 0 is never full
full(q) == IF maxsize <= 0 THEN FALSE ELSE Len(q) >= maxsize

\* variant: the size is read after the item was put
qsize_after_put(q) == Len(q) + 1

\* queue.qsize()
qsize(q) == Len(q)

\* variant: the newest item is returned first
get_last(q) == [item |-> q[Len(q)], rest |-> SubSeq(q, 1, Len(q) - 1)]

\* queue.get(): the item returned and the items left
get(q) == [item |-> Head(q), rest |-> Tail(q)]

(* ---------------- _enqueue_job ---------------- *)

\* variant: the check is missing
QueueFullCheck_missing(q) == FALSE

\* variant: the check sees the queue as it was before the newest item was
\* put, as if another submission had run between the check and put_nowait
QueueFullCheck_stale(q) == q # <<>> /\ full(Tail(q))

\* the check `if queue.full():` of _enqueue_job
QueueFullCheck(q) == full(q)

\* the reply of _enqueue_job to an accepted submission
AcceptedReply(c, position) ==
    [chat |-> c,
     text |-> IF position = 0 THEN "accepted" ELSE "wait",
     position |-> position]

\* the task bot_data["queue_worker_task"] exists and is not done
WorkerAlive == wpc \notin {"none", "done"}

\* variant: a worker is never created
_ensure_queue_worker_missing == UNCHANGED <<wpc, wcancel>>

\* variant: a new task is created at every call
_ensure_queue_worker_always ==
    /\ wpc' = "get"
    /\ wcancel' = "no"

\* _ensure_queue_worker: a new task is created unless one is alive; the new
\* task has not run yet and starts at queue.get()
_ensure_queue_worker ==
    IF WorkerAlive
    THEN UNCHANGED <<wpc, wcancel>>
    ELSE /\ wpc' = "get"
         /\ wcancel' = "no"

\* _enqueue_job(update of chat c, job of type t): from the check of the queue
\* to the reply there is no await, so the call is one step
_enqueue_job(c, t) ==
    /\ QueueFullCheck(queue) \/ nextId <= MaxJobs
    /\ IF QueueFullCheck(queue)
       THEN /\ lastReply' = [chat |-> c, text |-> "queue_full",
                             position |-> 0]
            /\ UNCHANGED <<queue, nextId, wpc, wcancel>>
       ELSE IF full(queue)
            THEN \* put_nowait raises asyncio.QueueFull: the handler fails
                 /\ lastReply' = [chat |-> c, text |-> "error",
                                  position |-> 0]
                 /\ UNCHANGED <<queue, nextId, wpc, wcancel>>
            ELSE LET position == qsize(queue)
                     job == [id |-> nextId, chat_id |-> c, type |-> t]
                 IN  /\ queue' = Append(queue, job)
                     /\ nextId' = nextId + 1
                     /\ _ensure_queue_worker
                     /\ lastReply' = AcceptedReply(c, position)
    /\ UNCHANGED <<cur, err, res, ni, msgs, threads, started, finished,
                   reported>>
    /\ UNCHANGED <<hvars, bvars, nvars, fvars, wvars>>

(* ---------------- _queue_worker ---------------- *)

\* one pass through the head of the loop of _queue_worker: queue.get()
\* suspends the worker when q is empty, and otherwise returns at once; the
\* item is dispatched and its pipeline is started with asyncio.to_thread
LoopHead(q) ==
    /\ IF q = <<>>
       THEN /\ queue' = q
            /\ wpc' = "get"
            /\ cur' = NoJob
            /\ threads' = threads
            /\ started' = started
       ELSE /\ queue' = get(q).rest
            /\ wpc' = "thread"
            /\ cur' = get(q).item
            /\ threads' = threads \cup {get(q).item}
            /\ started' = Append(started, get(q).item.id)
    /\ err' = NoErr
    /\ res' = NoErr
    /\ ni' = 0
    /\ msgs' = <<>>

\* variant: task_done is called in the except clause and in the finally
\* clause
task_done_twice == finished' = finished \o <<cur.id, cur.id>>

\* the finally clause of _queue_worker: queue.task_done()
task_done == finished' = Append(finished, cur.id)

\* the worker, suspended in queue.get() (or just created), runs when an item
\* is in the queue
_queue_worker_get ==
    /\ wpc = "get"
    /\ wcancel # "pending"
    /\ queue # <<>>
    /\ LoopHead(queue)
    /\ UNCHANGED <<nextId, lastReply, wcancel, finished, reported>>
    /\ UNCHANGED <<hvars, bvars, nvars, fvars, wvars>>

\* the pipeline of job j ends with result r.  The worker that awaits it goes
\* on: to the first notification when the pipeline returned, to the message
\* of its except clause when it raised.  A result nobody awaits is dropped.
pipeline_outcome(j, r) ==
    /\ j \in threads
    /\ threads' = threads \ {j}
    /\ IF wpc = "thread" /\ cur = j /\ wcancel # "pending"
       THEN IF r.exc = "ok"
            THEN /\ res' = r
                 /\ err' = err
                 /\ wpc' = "notify"
                 /\ ni' = 1
                 /\ msgs' = <<Notifications(j.type, r)[1]>>
            ELSE /\ err' = r
                 /\ res' = res
                 /\ wpc' = "report"
                 /\ ni' = ni
                 /\ msgs' = <<ErrorMessage(j.type, PipelineRaises(r))>>
       ELSE UNCHANGED <<wpc, err, res, ni, msgs>>
    /\ UNCHANGED <<queue, nextId, lastReply, wcancel, cur, started, finished,
                   reported>>

\* the same, for a pipeline whose steps are not followed one by one
pipeline_ends(j, r) ==
    /\ pipeline_outcome(j, r)
    /\ UNCHANGED <<hvars, bvars, nvars, fvars, wvars>>

\* variant: _queue_worker has no `except Exception`, so the exception of a
\* failed send leaves the loop after the finally clause
error_message_escapes(ok) ==
    /\ wpc = "report"
    /\ wcancel # "pending"
    /\ task_done
    /\ IF ok
       THEN /\ LoopHead(queue)
            /\ reported' = cur.chat_id
       ELSE /\ wpc' = "done"
            /\ cur' = NoJob
            /\ err' = NoErr
            /\ res' = NoErr
            /\ ni' = 0
            /\ msgs' = <<>>
            /\ UNCHANGED <<queue, threads, started, reported>>
    /\ UNCHANGED <<nextId, lastReply, wcancel>>
    /\ UNCHANGED <<hvars, bvars, nvars, fvars, wvars>>

\* the send_message of an except clause of _process_youtube_item or
\* _process_text_item returns or raises; when it raises, the exception
\* reaches `except Exception` of _queue_worker, which sends the generic
\* message
error_message_sent(ok) ==
    /\ wpc = "report"
    /\ wcancel # "pending"
    /\ IF ok
       THEN /\ task_done
            /\ LoopHead(queue)
            /\ reported' = cur.chat_id
       ELSE /\ wpc' = "fallback"
            /\ msgs' = Append(msgs, "generic")
            /\ UNCHANGED <<queue, cur, err, res, ni, threads, started,
                           finished, reported>>
    /\ UNCHANGED <<nextId, lastReply, wcancel>>
    /\ UNCHANGED <<hvars, bvars, nvars, fvars, wvars>>

\* the send_message in `except Exception` of _queue_worker returns or raises;
\* either way the finally clause runs and the loop goes on
fallback_message_sent(ok) ==
    /\ wpc = "fallback"
    /\ wcancel # "pending"
    /\ task_done
    /\ LoopHead(queue)
    /\ reported' = cur.chat_id
    /\ UNCHANGED <<nextId, lastReply, wcancel>>
    /\ UNCHANGED <<hvars, bvars, nvars, fvars, wvars>>

\* variant: a notification that fails ends the job's notifications
notification_failure_ends(ok) ==
    /\ wpc = "notify"
    /\ wcancel # "pending"
    /\ IF ok /\ ni < Len(Notifications(cur.type, res))
       THEN /\ ni' = ni + 1
            /\ msgs' = Append(msgs, Notifications(cur.type, res)[ni + 1])
            /\ UNCHANGED <<queue, wpc, cur, err, res, threads, started,
                           finished, reported>>
       ELSE /\ task_done
            /\ LoopHead(queue)
            /\ reported' = cur.chat_id
    /\ UNCHANGED <<nextId, lastReply, wcancel>>

\* the success path of _process_youtube_job and of _process_text_job: the
\* awaited notification ni was sent (ok) or raised an Exception that its own
\* try/except logged; the next one is awaited, and after the last one the job
\* returns to _queue_worker, whose finally clause calls task_done
notification_attempt(ok) ==
    /\ wpc = "notify"
    /\ wcancel # "pending"
    /\ IF ni < Len(Notifications(cur.type, res))
       THEN /\ ni' = ni + 1
            /\ msgs' = Append(msgs, Notifications(cur.type, res)[ni + 1])
            /\ UNCHANGED <<queue, wpc, cur, err, res, threads, started,
                           finished, reported>>
       ELSE /\ task_done
            /\ LoopHead(queue)
            /\ reported' = cur.chat_id
    /\ UNCHANGED <<nextId, lastReply, wcancel>>

\* the same, for a job whose notifications are not recorded
notification_sent(ok) ==
    /\ notification_attempt(ok)
    /\ UNCHANGED <<hvars, bvars, nvars, fvars, wvars>>

\* the same, for the job whose notifications are followed one by one
notification_recorded(ok) ==
    /\ notification_attempt(ok)
    /\ nlog' = Append(nlog, [msg |-> Notifications(cur.type, res)[ni], ok |-> ok])
    /\ UNCHANGED <<hvars, bvars, fvars, wvars>>

(* ---------------- shutdown ---------------- *)

\* _post_shutdown: task.cancel() on a task that is not done
_post_shutdown ==
    /\ WorkerAlive
    /\ wcancel = "no"
    /\ wcancel' = "pending"
    /\ UNCHANGED <<queue, nextId, lastReply, wpc, cur, err, res, ni, msgs,
                   threads, started, finished, reported>>
    /\ UNCHANGED <<hvars, bvars, nvars, fvars, wvars>>

\* variant: CancelledError in queue.get() is handled like any other exception
\* of queue.get(): the loop goes on
worker_cancel_swallowed ==
    /\ wcancel = "pending"
    /\ wcancel' = "delivered"
    /\ IF wpc = "get"
       THEN UNCHANGED <<wpc, cur, err, res, ni, msgs, finished>>
       ELSE /\ task_done
            /\ wpc' = "done"
            /\ cur' = NoJob
            /\ err' = NoErr
            /\ res' = NoErr
            /\ ni' = 0
            /\ msgs' = <<>>
    /\ UNCHANGED <<queue, nextId, lastReply, threads, started, reported>>
    /\ UNCHANGED <<hvars, bvars, nvars, fvars, wvars>>

\* CancelledError is raised in the worker at the await where it is suspended.
\* In queue.get() it is caught and the worker returns.  Anywhere else no
\* except clause catches it (it is not an Exception): the finally clause
\* calls task_done and the task ends; the thread of the pipeline goes on.
worker_cancelled ==
    /\ wcancel = "pending"
    /\ wcancel' = "delivered"
    /\ wpc' = "done"
    /\ IF wpc = "get"
       THEN UNCHANGED <<cur, err, res, ni, msgs, finished>>
       ELSE /\ task_done
            /\ cur' = NoJob
            /\ err' = NoErr
            /\ res' = NoErr
            /\ ni' = 0
            /\ msgs' = <<>>
    /\ UNCHANGED <<queue, nextId, lastReply, threads, started, reported>>
    /\ UNCHANGED <<hvars, bvars, nvars, fvars, wvars>>

(* ---------------- specifications ---------------- *)

Submit == \E c \in Chats, t \in JobTypes : _enqueue_job(c, t)

PipelineEnds == \E j \in threads : \E r \in PipelineResults(j.type) : pipeline_ends(j, r)

ErrorMessageSent == \E ok \in BOOLEAN : error_message_sent(ok)

FallbackMessageSent == \E ok \in BOOLEAN : fallback_message_sent(ok)

NotificationSent == \E ok \in BOOLEAN : notification_sent(ok)

WorkerStep ==
    \/ _queue_worker_get
    \/ PipelineEnds
    \/ ErrorMessageSent
    \/ FallbackMessageSent
    \/ NotificationSent

Next ==
    \/ Submit
    \/ WorkerStep
    \/ _post_shutdown
    \/ worker_cancelled

Spec == Init /\ [][Next]_vars

LiveNext ==
    \/ Submit
    \/ WorkerStep

\* without a shutdown; the event loop runs every task that can run, the
\* executor runs every pipeline, and every external call returns or raises
LiveSpec == Init /\ [][LiveNext]_vars /\ WF_vars(WorkerStep)

(* ---------------- texts ---------------- *)

\* a text is a sequence of characters; the characters of the transcripts
Alphabet == {"a", ".", " "}

Texts == UNION {[1..n -> Alphabet] : n \in 0..MaxLen}

\* the characters str.strip() removes and \s matches
Whitespace == {" ", "\n"}

RECURSIVE lstrip(_)
lstrip(s) ==
    IF s # <<>> /\ Head(s) \in Whitespace THEN lstrip(Tail(s)) ELSE s

RECURSIVE rstrip(_)
rstrip(s) ==
    IF s # <<>> /\ s[Len(s)] \in Whitespace
    THEN rstrip(SubSeq(s, 1, Len(s) - 1))
    ELSE s

\* str.strip()
strip(s) == rstrip(lstrip(s))

\* text[a:b] of Python, for 0 <= a
slice(s, a, b) == SubSeq(s, a + 1, IF b > Len(s) THEN Len(s) ELSE b)

MaxOf(S) == CHOOSE m \in S : \A x \in S : x <= m

\* text.rfind(sub, 0, end) for a sub of two characters: the largest index i
\* with text[i:i+2] = sub and i + 2 <= end, or -1
rfind(text, sub, end) ==
    MaxOf({-1} \cup {i \in 0..(end - 2) :
                        /\ i + 2 <= Len(text)
                        /\ text[i + 1] = sub[1]
                        /\ text[i + 2] = sub[2]})

\* re.sub(r"\r?\n|\r", " ", ...) followed by re.sub(r"\s+", " ", ...)
RECURSIVE collapse_whitespace(_)
collapse_whitespace(s) ==
    IF s = <<>> THEN <<>>
    ELSE IF Head(s) \in Whitespace
         THEN <<" ">> \o collapse_whitespace(lstrip(s))
         ELSE <<Head(s)>> \o collapse_whitespace(Tail(s))

\* remove_timecodes: the texts of Alphabet hold no digit, so the pattern of
\* the timecodes matches nowhere; line breaks and runs of whitespace become
\* one space and the result is stripped
remove_timecodes(text) == strip(collapse_whitespace(text))

\* a function raised e / returned v
Raised(e) == [exc |-> e, value |-> <<>>]

Returned(v) == [exc |-> "none", value |-> v]

\* variant: only a chunk_size of zero is refused
chunk_size_invalid_zero_only(n) == n = 0

\* the test `if chunk_size <= 0:` of split_into_chunks
chunk_size_invalid(n) == n <= 0

\* variant: a last chunk shorter than chunk_size is left out
chunk_slices_whole_only(text, n) ==
    [i \in 1..(IF n > 0 THEN Len(text) \div n ELSE 0)
        |-> slice(text, (i - 1) * n, i * n)]

\* [text[i : i + n] for i in range(0, len(text), n)]; the range of a
\* negative step is empty (a step of zero does not get here)
chunk_slices(text, n) ==
    [i \in 1..(IF n > 0 THEN (Len(text) + n - 1) \div n ELSE 0)
        |-> slice(text, (i - 1) * n, i * n)]

\* split_into_chunks
split_into_chunks(text, n) ==
    IF chunk_size_invalid(n)
    THEN Raised("chunk_size must be > 0")
    ELSE Returned(chunk_slices(text, n))

TailResult(complete_text, tail) ==
    [complete_text |-> complete_text, tail |-> tail]

\* variant: only ". " ends a sentence
find_tail_period_only(text) ==
    IF text = <<>>
    THEN TailResult(<<>>, <<>>)
    ELSE LET end_index == Len(text) - 1
             sentence_break == rfind(text, <<".", " ">>, end_index)
         IN  IF sentence_break = -1
             THEN TailResult(strip(text), <<>>)
             ELSE TailResult(strip(slice(text, 0, sentence_break + 1)),
                             strip(slice(text, sentence_break + 2, Len(text))))

\* find_tail
find_tail(text) ==
    IF text = <<>>
    THEN TailResult(<<>>, <<>>)
    ELSE LET end_index == Len(text) - 1
             sentence_break ==
                 MaxOf({rfind(text, <<".", " ">>, end_index),
                        rfind(text, <<"?", " ">>, end_index),
                        rfind(text, <<"!", " ">>, end_index)})
         IN  IF sentence_break = -1
             THEN TailResult(strip(text), <<>>)
             ELSE TailResult(strip(slice(text, 0, sentence_break + 1)),
                             strip(slice(text, sentence_break + 2, Len(text))))

\* what langdetect's detect(sample) does: it returns a language code (one of
\* the three mapped ones or another one) or raises
DetectOutcomes == {"en", "de", "ru", "fr", "LangDetectException"}

\* variant: a code that is not in the mapping is returned as it is
mapping_get_no_default(code) ==
    CASE code = "en" -> "English"
      [] code = "de" -> "German"
      [] code = "ru" -> "Russian"
      [] OTHER -> code

\* mapping.get(code, "English")
mapping_get(code) ==
    CASE code = "en" -> "English"
      [] code = "de" -> "German"
      [] code = "ru" -> "Russian"
      [] OTHER -> "English"

\* detect_language_name, when detect does outcome
detect_language_name(text, outcome) ==
    LET sample == slice(strip(text), 0, 300)
    IN  IF sample = <<>>
        THEN "English"
        ELSE IF outcome = "LangDetectException"
             THEN "English"
             ELSE mapping_get(outcome)

\* the message content the transform service may answer a request about text
\* with: the text itself or nothing
ChatReplies(text) == {text, <<>>}

\* the text in other words: what a translation of it may look like
in_other_words(text) ==
    [i \in 1..Len(text) |-> IF text[i] = "a" THEN "b" ELSE text[i]]

\* the message content the service may answer a translation request with
TranslationReplies(text) == ChatReplies(text) \cup {in_other_words(text)}

\* the return value of _chat: (content or "").strip()
chat_content(raw) == strip(raw)

\* variant: the empty result is not checked
improve_readability_unchecked(result) == Returned(find_tail(result))

\* improve_readability, from the result of _chat on
improve_readability(result) ==
    IF result = <<>>
    THEN Raised("OpenAI returned empty readability result")
    ELSE Returned(find_tail(result))

\* translate_to_russian, from the result of _chat on
translate_to_russian(result) ==
    IF result = <<>>
    THEN Raised("OpenAI returned empty translation result")
    ELSE Returned(result)

\* structure_markdown, from the result of _chat on
structure_markdown(result) ==
    IF result = <<>>
    THEN Raised("OpenAI returned empty structure result")
    ELSE Returned(result)

\* "\n\n".join(parts)
RECURSIVE join(_)
join(parts) ==
    IF parts = <<>> THEN <<>>
    ELSE IF Len(parts) = 1 THEN parts[1]
         ELSE parts[1] \o <<"\n", "\n">> \o join(Tail(parts))

\* [part for part in parts if part.strip()]
RECURSIVE non_empty_parts(_)
non_empty_parts(parts) ==
    IF parts = <<>> THEN <<>>
    ELSE IF strip(Head(parts)) # <<>>
         THEN <<Head(parts)>> \o non_empty_parts(Tail(parts))
         ELSE non_empty_parts(Tail(parts))

\* the variants _upload_variants_to_notion uploads (structured_translation_markdown
\* is always None)
Variants ==
    <<"original_transcript", "structured_markdown", "readable_transcript">>
    \o (IF translation_ru # <<>> THEN <<"translation_ru">> ELSE <<>>)

(* ---------------- handle_transcript ---------------- *)

\* the run ends with the exception e
handler_raises(e) ==
    /\ hpc' = "failed"
    /\ herr' = e

\* the exception classes _chat raises for a failure of the service
ChatErrorClasses == {_chat(f) : f \in ChatFailures}

\* variant: the tail of the chunk before is not carried over
readability_input_chunk_only(tail, chunk) == chunk

\* the argument of improve_readability: current_tail + chunk
readability_input(tail, chunk) == tail \o chunk

\* variant: the tail left over is not appended
with_leftover_tail_dropped(parts, tail) == parts

\* `if current_tail: readable_parts.append(current_tail)`
with_leftover_tail(parts, tail) ==
    IF tail # <<>> THEN Append(parts, tail) ELSE parts

\* variant: every text is translated
needs_translation_always(language) == language \in {language}

\* the test `if detected_language != "Russian":`
needs_translation(language) == language # "Russian"

\* variant: the readable text is structured even when it was translated
text_for_structuring_readable == readable_transcript

\* text_for_structuring
text_for_structuring ==
    IF translation_ru # <<>> THEN translation_ru ELSE readable_transcript

\* the text of the _chat call the run is about to make
ChatInput ==
    CASE hpc = "readability" -> readability_input(current_tail, chunks[idx + 1])
      [] hpc = "translate" -> readable_transcript
      [] hpc = "structure" -> text_for_structuring

\* a call of _chat is recorded: it returned result, or raised exc
chat_called(result, exc) ==
    /\ chat_log' = Append(chat_log, [stage |-> hpc, text |-> ChatInput,
                                     result |-> result, exc |-> exc])
    /\ chat_calls' = chat_calls + 1

\* handle_transcript up to the loop: the prompts are loaded, the text is
\* cleaned and split
handle_transcript_start ==
    /\ hpc = "start"
    /\ LET clear_text == remove_timecodes(original_transcript)
           split_result == split_into_chunks(clear_text, chunk_size)
       IN  IF prompt_file # "valid"
           THEN /\ handler_raises("load_prompts failed")
                /\ chunks' = chunks
           ELSE IF split_result.exc # "none"
                THEN /\ handler_raises(split_result.exc)
                     /\ chunks' = chunks
                ELSE /\ chunks' = split_result.value
                     /\ IF chunks' = <<>>
                        THEN handler_raises("Transcript is empty")
                        ELSE /\ hpc' = "readability"
                             /\ herr' = herr
    /\ UNCHANGED <<original_transcript, chunk_size, idx, readable_parts,
                   current_tail, readable_transcript, detected_language,
                   translation_ru, structured_markdown, chat_result,
                   chat_calls, notion_pages, preserving, chat_log,
                   prompt_file,
                   detect_outcome>>
    /\ UNCHANGED <<qvars, bvars, nvars, fvars, wvars>>

\* variant: the exception of the call is caught and the run goes on
chat_fails_and_goes_on(f) ==
    /\ hpc \in {"readability", "translate", "structure"}
    /\ chat_called(<<>>, _chat(f))
    /\ preserving' = FALSE
    /\ herr' = _chat(f)
    /\ UNCHANGED <<original_transcript, chunk_size, chunks, idx,
                   readable_parts, current_tail, readable_transcript,
                   detected_language, translation_ru, structured_markdown,
                   chat_result, notion_pages, prompt_file, detect_outcome,
                   hpc>>
    /\ UNCHANGED <<qvars, bvars, nvars, fvars, wvars>>

\* a call of _chat raises: client.chat.completions.create failed with f.
\* Neither the functions of transcript_handler nor those of pipeline catch
\* it, so the run ends
chat_fails(f) ==
    /\ hpc \in {"readability", "translate", "structure"}
    /\ chat_called(<<>>, _chat(f))
    /\ preserving' = FALSE
    /\ handler_raises(_chat(f))
    /\ UNCHANGED <<original_transcript, chunk_size, chunks, idx,
                   readable_parts, current_tail, readable_transcript,
                   detected_language, translation_ru, structured_markdown,
                   chat_result, notion_pages, prompt_file,
                   detect_outcome>>
    /\ UNCHANGED <<qvars, bvars, nvars, fvars, wvars>>

\* one pass of the loop over the chunks: the service answers raw
readability_step(raw) ==
    /\ hpc = "readability"
    /\ idx < Len(chunks)
    /\ LET text == readability_input(current_tail, chunks[idx + 1])
           result == chat_content(raw)
           tail_result == improve_readability(result)
       IN  /\ raw \in ChatReplies(text)
           /\ chat_result' = result
           /\ chat_called(result, "none")
           /\ preserving' = (preserving /\ result = strip(text))
           /\ IF tail_result.exc # "none"
              THEN /\ handler_raises(tail_result.exc)
                   /\ UNCHANGED <<idx, readable_parts, current_tail>>
              ELSE /\ readable_parts' = Append(readable_parts,
                                               tail_result.value.complete_text)
                   /\ current_tail' = tail_result.value.tail
                   /\ idx' = idx + 1
                   /\ hpc' = IF idx + 1 = Len(chunks)
                             THEN "join" ELSE "readability"
                   /\ herr' = herr
    /\ UNCHANGED <<original_transcript, chunk_size, chunks,
                   readable_transcript, detected_language, translation_ru,
                   structured_markdown, notion_pages, prompt_file,
                   detect_outcome>>
    /\ UNCHANGED <<qvars, bvars, nvars, fvars, wvars>>

\* after the loop: the tail left over is appended, the parts are joined and
\* the language of the readable text is detected; detect does outcome
join_step(outcome) ==
    /\ hpc = "join"
    /\ LET parts == with_leftover_tail(readable_parts, current_tail)
           readable == strip(join(non_empty_parts(parts)))
           language == detect_language_name(readable, outcome)
       IN  /\ readable_parts' = parts
           /\ readable_transcript' = readable
           /\ IF readable = <<>>
              THEN /\ handler_raises("Readable transcript is empty")
                   /\ UNCHANGED <<detected_language, detect_outcome>>
              ELSE /\ detect_outcome' = outcome
                   /\ detected_language' = language
                   /\ hpc' = IF needs_translation(language)
                             THEN "translate" ELSE "structure"
                   /\ herr' = herr
    /\ UNCHANGED <<original_transcript, chunk_size, chunks, idx, current_tail,
                   translation_ru, structured_markdown, chat_result,
                   chat_calls, notion_pages, preserving, chat_log,
                   prompt_file>>
    /\ UNCHANGED <<qvars, bvars, nvars, fvars, wvars>>

\* the translation of a text that is not Russian
translate_step(raw) ==
    /\ hpc = "translate"
    /\ LET result == chat_content(raw)
           translated == translate_to_russian(result)
       IN  /\ raw \in TranslationReplies(readable_transcript)
           /\ chat_result' = result
           /\ chat_called(result, "none")
           /\ preserving' = (preserving /\ result = strip(readable_transcript))
           /\ IF translated.exc # "none"
              THEN /\ handler_raises(translated.exc)
                   /\ translation_ru' = translation_ru
              ELSE /\ translation_ru' = translated.value
                   /\ hpc' = "structure"
                   /\ herr' = herr
    /\ UNCHANGED <<original_transcript, chunk_size, chunks, idx,
                   readable_parts, current_tail, readable_transcript,
                   detected_language, structured_markdown, notion_pages,
                   prompt_file,
                   detect_outcome>>
    /\ UNCHANGED <<qvars, bvars, nvars, fvars, wvars>>

\* the structuring call; handle_transcript returns its HandlerResult, and
\* process_plain_text uploads it `if notion`
structure_step(raw, notion) ==
    /\ hpc = "structure"
    /\ LET result == chat_content(raw)
           structured == structure_markdown(result)
       IN  /\ raw \in ChatReplies(text_for_structuring)
           /\ chat_result' = result
           /\ chat_called(result, "none")
           /\ preserving' = (preserving /\ result = strip(text_for_structuring))
           /\ IF structured.exc # "none"
              THEN /\ handler_raises(structured.exc)
                   /\ structured_markdown' = structured_markdown
              ELSE /\ structured_markdown' = structured.value
                   /\ hpc' = IF notion THEN "upload" ELSE "done"
                   /\ herr' = herr
    /\ UNCHANGED <<original_transcript, chunk_size, chunks, idx,
                   readable_parts, current_tail, readable_transcript,
                   detected_language, translation_ru, notion_pages,
                   prompt_file,
                   detect_outcome>>
    /\ UNCHANGED <<qvars, bvars, nvars, fvars, wvars>>

\* one pass of the loop of _upload_variants_to_notion: send_markdown_to_notion
\* returns the page or raises
upload_step(ok) ==
    /\ hpc = "upload"
    /\ IF ok
       THEN /\ notion_pages' = notion_pages + 1
            /\ hpc' = IF notion_pages + 1 = Len(Variants)
                      THEN "done" ELSE "upload"
            /\ herr' = herr
       ELSE /\ handler_raises("send_markdown_to_notion failed")
            /\ notion_pages' = notion_pages
    /\ UNCHANGED <<original_transcript, chunk_size, chunks, idx,
                   readable_parts, current_tail, readable_transcript,
                   detected_language, translation_ru, structured_markdown,
                   chat_result, chat_calls, preserving, chat_log,
                   prompt_file,
                   detect_outcome>>
    /\ UNCHANGED <<qvars, bvars, nvars, fvars, wvars>>

\* what process_plain_text hands to the worker that awaits it: the
\* ProcessedText it returned or the exception that ended it
ProcessedText ==
    IF hpc = "done"
    THEN OkResult(IF translation_ru # <<>> THEN "translated" ELSE "russian",
                  "nochannel")
    ELSE [exc |-> IF herr \in ChatErrorClasses THEN herr
                  ELSE IF herr = "send_markdown_to_notion failed"
                       THEN "Exception" ELSE "ValueError",
          body |-> "none", code |-> "none"]

\* process_plain_text ends and asyncio.to_thread hands its outcome to
\* _process_text_item; the local variables of the run are gone, the calls it
\* made stay made
process_plain_text_ends ==
    /\ hpc \in {"done", "failed"}
    /\ cur \in threads
    /\ pipeline_outcome(cur, ProcessedText)
    /\ hpc' = "idle"
    /\ original_transcript' = <<>>
    /\ chunks' = <<>>
    /\ idx' = 0
    /\ readable_parts' = <<>>
    /\ current_tail' = <<>>
    /\ readable_transcript' = <<>>
    /\ detected_language' = "none"
    /\ translation_ru' = <<>>
    /\ structured_markdown' = <<>>
    /\ chat_result' = <<>>
    /\ herr' = "none"
    /\ preserving' = TRUE
    /\ chat_log' = <<>>
    /\ detect_outcome' = "none"
    /\ UNCHANGED <<chunk_size, prompt_file, chat_calls, notion_pages>>
    /\ UNCHANGED <<bvars, nvars, fvars, wvars>>

ChatFails == \E f \in ChatFailures : chat_fails(f)

ReadabilityStep ==
    /\ hpc = "readability"
    /\ idx < Len(chunks)
    /\ \E raw \in ChatReplies(current_tail \o chunks[idx + 1]) :
           readability_step(raw)

JoinStep == \E outcome \in DetectOutcomes : join_step(outcome)

TranslateStep ==
    \E raw \in TranslationReplies(readable_transcript) : translate_step(raw)

StructureStep ==
    \E raw \in ChatReplies(text_for_structuring) :
        \E notion \in BOOLEAN : structure_step(raw, notion)

UploadStep == \E ok \in BOOLEAN : upload_step(ok)

\* the job of the run: a text job of chat 1
TextJob == [id |-> 1, chat_id |-> 1, type |-> "text"]

\* the text job was accepted, the worker took it from the queue and awaits
\* process_plain_text in a thread
TextJobStarted ==
    /\ queue = <<>>
    /\ nextId = 2
    /\ lastReply = AcceptedReply(1, 0)
    /\ wpc = "thread"
    /\ wcancel = "no"
    /\ cur = TextJob
    /\ err = NoErr
    /\ res = NoErr
    /\ ni = 0
    /\ msgs = <<>>
    /\ threads = {TextJob}
    /\ started = <<1>>
    /\ finished = <<>>
    /\ reported = 0

\* process_plain_text calls handle_transcript with any transcript, with any
\* chunk_size (load_openai_config admits only chunk sizes > 0, OpenAIConfig
\* any integer) and with a prompt file that can be loaded or not
HandlerInit ==
    /\ TextJobStarted
    /\ hpc = "start"
    /\ original_transcript \in Texts
    /\ chunk_size \in -1..MaxChunkSize
    /\ prompt_file \in {"valid", "invalid"}
    /\ chunks = <<>>
    /\ idx = 0
    /\ readable_parts = <<>>
    /\ current_tail = <<>>
    /\ readable_transcript = <<>>
    /\ detected_language = "none"
    /\ translation_ru = <<>>
    /\ structured_markdown = <<>>
    /\ chat_result = <<>>
    /\ chat_calls = 0
    /\ herr = "none"
    /\ notion_pages = 0
    /\ preserving = TRUE
    /\ chat_log = <<>>
    /\ detect_outcome = "none"
    /\ BlockIdle
    /\ NotifyIdle
    /\ FetchIdle
    /\ WebhookIdle

HandlerNext ==
    \/ handle_transcript_start
    \/ ChatFails
    \/ ReadabilityStep
    \/ JoinStep
    \/ TranslateStep
    \/ StructureStep
    \/ UploadStep
    \/ process_plain_text_ends
    \/ ErrorMessageSent
    \/ FallbackMessageSent
    \/ NotificationSent

HandlerSpec == HandlerInit /\ [][HandlerNext]_vars

(* ---------------- improve_readability on a result of _chat ------------- *)

\* the characters of the answers of the service
ChatAlphabet == Alphabet \cup {"?", "!"}

ChatTexts == UNION {[1..n -> ChatAlphabet] : n \in 0..MaxLen}

\* improve_readability from the return of _chat on, and the two assignments
\* handle_transcript makes with what it returns
improve_readability_returns ==
    /\ hpc = "chat_returned"
    /\ LET tail_result == improve_readability(chat_result)
       IN  IF tail_result.exc # "none"
           THEN /\ handler_raises(tail_result.exc)
                /\ UNCHANGED <<readable_parts, current_tail>>
           ELSE /\ readable_parts' = Append(readable_parts,
                                            tail_result.value.complete_text)
                /\ current_tail' = tail_result.value.tail
                /\ hpc' = "tail_found"
                /\ herr' = herr
    /\ UNCHANGED <<original_transcript, chunk_size, chunks, idx,
                   readable_transcript, detected_language, translation_ru,
                   structured_markdown, chat_result, chat_calls, notion_pages,
                   preserving, chat_log, detect_outcome, prompt_file>>
    /\ UNCHANGED <<qvars, bvars, nvars, fvars, wvars>>

\* _chat has returned the stripped content of any answer to the first
\* readability call of a run
TailInit ==
    /\ TextJobStarted
    /\ hpc = "chat_returned"
    /\ chat_result \in {chat_content(raw) : raw \in ChatTexts}
    /\ original_transcript = <<>>
    /\ chunk_size = 1
    /\ chunks = <<>>
    /\ idx = 0
    /\ readable_parts = <<>>
    /\ current_tail = <<>>
    /\ readable_transcript = <<>>
    /\ detected_language = "none"
    /\ translation_ru = <<>>
    /\ structured_markdown = <<>>
    /\ chat_calls = 1
    /\ herr = "none"
    /\ notion_pages = 0
    /\ preserving = TRUE
    /\ chat_log = <<>>
    /\ detect_outcome = "none"
    /\ prompt_file = "valid"
    /\ BlockIdle
    /\ NotifyIdle
    /\ FetchIdle
    /\ WebhookIdle

TailNext == improve_readability_returns

TailSpec == TailInit /\ [][TailNext]_vars

(* ---------------- notion: markdown to blocks ---------------- *)

\* the characters of the markdown texts
MarkdownAlphabet == {"a", ".", " ", "\n", "#"}

Markdowns == UNION {[1..n -> MarkdownAlphabet] : n \in 0..MaxMarkdownLen}

\* str.split(sep) for a sep of one character: the pieces between the
\* occurrences of sep, the empty ones included.  re.split(r"\n+", text)
\* differs from text.split("\n") only in empty pieces, which the loops skip
RECURSIVE split(_, _)
split(s, sep) ==
    IF \A i \in 1..Len(s) : s[i] # sep
    THEN <<s>>
    ELSE LET i == CHOOSE k \in 1..Len(s) :
                      s[k] = sep /\ \A j \in 1..(k - 1) : s[j] # sep
         IN  <<SubSeq(s, 1, i - 1)>> \o split(SubSeq(s, i + 1, Len(s)), sep)

\* line.startswith(prefix)
startswith(line, prefix) ==
    /\ Len(line) >= Len(prefix)
    /\ SubSeq(line, 1, Len(prefix)) = prefix

\* int(limit * 0.95)
flush_threshold(limit) == (limit * 95) \div 100

\* the end of the loop over the sentences of split_long_paragraphs: the
\* candidate left over is appended only when it is shorter than the threshold
flush_trailing(new_paragraph, limit) ==
    IF new_paragraph # <<>> /\ Len(new_paragraph) < flush_threshold(limit)
    THEN <<new_paragraph>>
    ELSE <<>>

\* the loop over the sentences of a paragraph longer than limit: what is
\* appended to result from the sentences left and the candidate so far
RECURSIVE regroup_sentences(_, _, _)
regroup_sentences(sentences, new_paragraph, limit) ==
    IF sentences = <<>>
    THEN flush_trailing(new_paragraph, limit)
    ELSE LET sentence == strip(Head(sentences))
             candidate == IF new_paragraph # <<>>
                          THEN new_paragraph \o <<".", " ">> \o sentence
                          ELSE sentence
         IN  IF sentence = <<>>
             THEN regroup_sentences(Tail(sentences), new_paragraph, limit)
             ELSE IF Len(candidate) <= limit
                  THEN regroup_sentences(Tail(sentences), candidate, limit)
                  ELSE (IF new_paragraph # <<>>
                        THEN <<new_paragraph>> ELSE <<>>)
                       \o regroup_sentences(Tail(sentences), sentence, limit)

\* the body of the loop over the paragraphs: what one paragraph appends
split_paragraph(paragraph, limit) ==
    LET p == strip(paragraph)
    IN  IF p = <<>> THEN <<>>
        ELSE IF Len(p) <= limit THEN <<p>>
             ELSE regroup_sentences(split(p, "."), <<>>, limit)

RECURSIVE split_paragraphs(_, _)
split_paragraphs(paragraphs, limit) ==
    IF paragraphs = <<>> THEN <<>>
    ELSE split_paragraph(Head(paragraphs), limit)
         \o split_paragraphs(Tail(paragraphs), limit)

\* split_long_paragraphs
split_long_paragraphs(text, limit) == split_paragraphs(split(text, "\n"), limit)

\* parse_inline: the contents of the fragments; a text without "*" is one
\* fragment, and an empty text has none
parse_inline(text) == IF text = <<>> THEN <<>> ELSE <<text>>

Block(type, text) == [type |-> type, rich_text |-> parse_inline(text)]

\* the body of the loop of convert_markdown_to_blocks: the blocks of one line
line_to_blocks(raw_line) ==
    LET line == strip(raw_line)
    IN  IF line = <<>> THEN <<>>
        ELSE IF startswith(line, <<"#", "#", "#", " ">>)
             THEN <<Block("heading_3", slice(line, 4, Len(line)))>>
             ELSE IF startswith(line, <<"#", "#", " ">>)
                  THEN <<Block("heading_2", slice(line, 3, Len(line)))>>
                  ELSE <<Block("paragraph", line)>>

RECURSIVE lines_to_blocks(_)
lines_to_blocks(lines) ==
    IF lines = <<>> THEN <<>>
    ELSE line_to_blocks(Head(lines)) \o lines_to_blocks(Tail(lines))

\* convert_markdown_to_blocks
convert_markdown_to_blocks(md) == lines_to_blocks(split(md, "\n"))

\* variant: the cap is tested after one block more
cap_reached_late(children) == Len(children) > MAX_CHILDREN_BLOCKS

\* the test `len(children_blocks) >= MAX_CHILDREN_BLOCKS`
cap_reached(children) == Len(children) >= MAX_CHILDREN_BLOCKS

\* the two loops of _markdown_to_children_blocks: todo are the parts left,
\* blocks the blocks left of the part at hand, children the blocks emitted
RECURSIVE children_loop(_, _, _)
children_loop(todo, blocks, children) ==
    IF blocks # <<>>
    THEN IF cap_reached(children)
         THEN children
         ELSE children_loop(todo, Tail(blocks), Append(children, Head(blocks)))
    ELSE IF todo = <<>>
         THEN children
         ELSE children_loop(Tail(todo), convert_markdown_to_blocks(Head(todo)),
                            children)

\* _markdown_to_children_blocks, from its parts on
_markdown_to_children_blocks(parts) == children_loop(parts, <<>>, <<>>)

\* send_markdown_to_notion up to notion.pages.create: the blocks are built
send_markdown_to_notion ==
    /\ bpc = "start"
    /\ bpc' = "built"
    /\ md_parts' = split_long_paragraphs(markdown, MAX_RICH_TEXT_CHARS)
    /\ children_blocks' = _markdown_to_children_blocks(md_parts')
    /\ UNCHANGED markdown
    /\ UNCHANGED <<qvars, hvars, nvars, fvars, wvars>>

\* notion.pages.create returns the page or raises
pages_create(ok) ==
    /\ bpc = "built"
    /\ bpc' = IF ok THEN "created" ELSE "failed"
    /\ UNCHANGED <<markdown, md_parts, children_blocks>>
    /\ UNCHANGED <<qvars, hvars, nvars, fvars, wvars>>

PagesCreate == \E ok \in BOOLEAN : pages_create(ok)

\* a call of send_markdown_to_notion with any markdown
BlockInit ==
    /\ QueueInit
    /\ HandlerIdle
    /\ NotifyIdle
    /\ FetchIdle
    /\ WebhookIdle
    /\ bpc = "start"
    /\ markdown \in Markdowns
    /\ md_parts = <<>>
    /\ children_blocks = <<>>

BlockNext ==
    \/ send_markdown_to_notion
    \/ PagesCreate

BlockSpec == BlockInit /\ [][BlockNext]_vars

(* ---------------- properties ---------------- *)

\* the jobs of chat c that wait in the queue or are being processed
Pending(c) ==
    {i \in 1..Len(queue) : queue[i].chat_id = c}
    \cup (IF cur.chat_id = c THEN {0} ELSE {})

\* C1: every submitter has at most one job in the queue or in processing (a
\* second submission of a submitter with a pending job is not enqueued)
C1_AdmissionExclusivity ==
    \A c \in Chats : Cardinality(Pending(c)) <= 1

\* C2: a submission attempted when the queue holds queue_maxsize jobs is not
\* blocked and is rejected: the reply is "queue full", the queue is unchanged,
\* no job is created and no worker is started
C2_QueueBackpressure ==
    /\ [](Len(queue) >= queue_maxsize => ENABLED Submit)
    /\ [][(Len(queue) >= queue_maxsize /\ Submit)
            => /\ lastReply'.text = "queue_full"
               /\ queue' = queue
               /\ nextId' = nextId
               /\ wpc' = wpc
               /\ wcancel' = wcancel]_vars

C2_Witness ==
    /\ lastReply.text = "queue_full"
    /\ Len(queue) = queue_maxsize

\* C3: the number of jobs waiting in the queue never exceeds queue_maxsize
C3_QueueBounded == Len(queue) <= queue_maxsize

C3_Witness ==
    /\ Len(queue) = queue_maxsize
    /\ Len(finished) >= 1

C5_NoConcurrentPipelines == Cardinality(threads) <= 1

\* C6: a failing job does not end the worker: no step of a worker that has not
\* been cancelled ends its task, and the step that ends the error path of a
\* job (after the error message, or after the failed error message and the
\* generic one) calls task_done and takes the next queued job, if any
C6_FailureNeverHaltsWorker ==
    [][(wcancel # "pending" /\ WorkerAlive)
         => /\ wpc' # "done"
            /\ (wpc \in {"report", "fallback"} /\ cur' # cur)
                 => /\ finished' = Append(finished, cur.id)
                    /\ IF queue = <<>>
                       THEN wpc' = "get" /\ cur' = NoJob
                       ELSE wpc' = "thread" /\ cur' = Head(queue)]_vars

C6_Witness ==
    /\ wpc = "fallback"
    /\ queue # <<>>
    /\ Len(finished) >= 1

\* C7: the worker exits only when no job is in progress: a shutdown during a
\* job lets the job finish first
C7_FinishBeforeExit ==
    [][(wpc' = "done" /\ wpc # "done") => wpc = "get"]_vars

\* C8: once task.cancel() was called on a worker, that worker dequeues no job
\* and starts no pipeline: the jobs in the queue stay there
C8_NoDequeueAfterCancel ==
    [][wcancel # "no"
         => /\ started' = started
            /\ threads' \subseteq threads
            /\ Len(queue') >= Len(queue)]_vars

C8_Witness ==
    /\ wpc = "done"
    /\ wcancel = "delivered"
    /\ queue # <<>>
    /\ started = <<>>

\* the worker has sent (awaits the send of) a message to the submitter of job i
OutcomeSent(i) ==
    /\ cur.id = i
    /\ msgs # <<>>
    /\ msgs[1] \in SubmitterMessages

\* job i was accepted and waits in the queue
Queued(i) == \E k \in 1..Len(queue) : queue[k].id = i

\* C9: without a shutdown and with a fairly scheduled worker, every accepted
\* job (it is in the queue from its acceptance on) is dequeued and an outcome
\* (a result or an error message) is sent to its submitter
C9_EveryJobReported ==
    \A i \in JobIds : Queued(i) ~> OutcomeSent(i)

C9_Witness ==
    /\ cur.id = MaxJobs
    /\ wpc = "notify"
    /\ ni = Len(Notifications(cur.type, res))

\* the classes of the errors of the transform service: the code reported is
\* the one of the body when it has one, else the one of the exception
ReportedCode(e) == IF e.body # "none" THEN e.body ELSE e.code

QuotaExceeded(e) ==
    e.exc = "RateLimitError" /\ ReportedCode(e) = "insufficient_quota"

RateLimited(e) ==
    e.exc = "RateLimitError" /\ ReportedCode(e) # "insufficient_quota"

ResultMessages ==
    {"processing", "links", "channel", "file_readable", "file_structure",
     "file_translation"}

SeqRange(s) == {s[i] : i \in 1..Len(s)}

C11_PositionAtInsertion ==
    [][nextId' # nextId
          => /\ lastReply'.position = Len(queue)
             /\ queue' = Append(queue, queue'[Len(queue')])
             /\ queue'[lastReply'.position + 1].id = nextId
             /\ queue'[lastReply'.position + 1].chat_id = lastReply'.chat
             /\ nextId' = nextId + 1
             /\ lastReply'.text
                    = IF Len(queue) = 0 THEN "accepted" ELSE "wait"]_vars

C11_Witness ==
    /\ lastReply.text = "wait"
    /\ lastReply.position = 1
    /\ Len(queue) = 2
    /\ queue[2].id = nextId - 1

\* C12: a job whose outcome was sent is not in the queue any more, and a
\* later submission of its submitter is accepted whenever the queue is not
\* full
C12_SlotReleased ==
    /\ [](\A i \in 1..Len(queue) : \A k \in 1..Len(finished) :
              queue[i].id # finished[k])
    /\ [][(/\ reported # 0
            /\ Len(queue) < queue_maxsize
            /\ \E t \in JobTypes : _enqueue_job(reported, t))
           => /\ nextId' = nextId + 1
              /\ lastReply'.text \in {"accepted", "wait"}
              /\ queue'[Len(queue')].chat_id = reported]_vars

\* the worker sent the outcome of job 1 and waits in queue.get(); job 2, of
\* the same submitter, came after that and was accepted
C12_Witness ==
    /\ started = <<1>>
    /\ finished = <<1>>
    /\ reported # 0
    /\ wpc = "get"
    /\ Len(queue) = 1
    /\ queue[1].chat_id = reported
    /\ queue[1].id = 2
    /\ lastReply = AcceptedReply(reported, 0)

(* ---------------- C13 - C15, C20: the chunks and the tail ------------ *)

\* the characters of a text that are not whitespace, in order
RECURSIVE NonWhitespace(_)
NonWhitespace(s) ==
    IF s = <<>> THEN <<>>
    ELSE IF Head(s) \in Whitespace
         THEN NonWhitespace(Tail(s))
         ELSE <<Head(s)>> \o NonWhitespace(Tail(s))

\* the cleaned text of the run
ClearText == remove_timecodes(original_transcript)

\* the readable text of one pass over the whole text with a transform that
\* returns its input
OnePass(text) ==
    LET r == find_tail(strip(text))
    IN  strip(join(non_empty_parts(<<r.complete_text, r.tail>>)))

\* the loop over the chunks and the joining of the parts are over
ReadableStageOver == hpc \notin {"idle", "start", "readability", "join"}

\* C13: with a content-preserving transform the readable text of a cleaned,
\* non-empty text is produced for every chunk size, and its characters other
\* than whitespace are those of the text, as in one pass over the whole text
C13_TailRoundTrip ==
    (/\ preserving
     /\ ClearText # <<>>
     /\ chunk_size >= 1
     /\ prompt_file = "valid"
     /\ ReadableStageOver)
        => /\ readable_transcript # <<>>
           /\ NonWhitespace(readable_transcript) = NonWhitespace(ClearText)
           /\ NonWhitespace(readable_transcript)
                  = NonWhitespace(OnePass(ClearText))

\* the segments of the readable text
Segments == non_empty_parts(readable_parts)

Terminators == {".", "?", "!"}

\* C14: every segment of the readable text but the last one ends with a
\* sentence terminator
C14_NoSentenceSplit ==
    (ReadableStageOver /\ readable_transcript # <<>>)
        => \A i \in 1..(Len(Segments) - 1) :
               Segments[i][Len(Segments[i])] \in Terminators

EmptyResultErrors ==
    {"OpenAI returned empty readability result",
     "OpenAI returned empty translation result",
     "OpenAI returned empty structure result"}

\* C15: a transform call that returns an empty result ends the run with an
\* error: the call adds no part and moves to no later chunk or stage, no
\* HandlerResult is produced, nothing is uploaded, and nothing happens after
\* it
C15_EmptyResultFails ==
    /\ []((/\ chat_log # <<>>
            /\ chat_log[Len(chat_log)].exc = "none"
            /\ chat_result = <<>>)
              => /\ hpc = "failed"
                 /\ herr \in EmptyResultErrors
                 /\ structured_markdown = <<>>
                 /\ notion_pages = 0)
    /\ [][(/\ chat_calls' = chat_calls + 1
            /\ chat_log'[Len(chat_log')].exc = "none"
            /\ chat_result' = <<>>)
              => /\ hpc' = "failed"
                 /\ UNCHANGED <<idx, readable_parts, current_tail,
                                readable_transcript, translation_ru,
                                structured_markdown, notion_pages>>]_vars
    /\ [][hpc = "failed"
              => \/ UNCHANGED hvars
                 \/ hpc' = "idle" /\ UNCHANGED <<chat_calls, notion_pages>>]_vars

\* the second chunk of a run got an empty result
C15_Witness ==
    /\ hpc = "failed"
    /\ chat_result = <<>>
    /\ chat_calls = 2
    /\ chat_log[2].exc = "none"
    /\ idx = 1
    /\ Len(chunks) >= 2
    /\ readable_parts # <<>>

RECURSIVE Concat(_)
Concat(ss) == IF ss = <<>> THEN <<>> ELSE Head(ss) \o Concat(Tail(ss))

\* C20: the chunks of split_into_chunks(text, n), n > 0, concatenated in
\* order are the text; every chunk is non-empty and at most n long, every
\* chunk but the last is exactly n long, and an empty text has no chunks
C20_ChunksPartitionText ==
    (hpc \notin {"idle", "start"} /\ chunk_size > 0 /\ prompt_file = "valid")
        => /\ Concat(chunks) = ClearText
           /\ \A i \in 1..Len(chunks) :
                  /\ chunks[i] # <<>>
                  /\ Len(chunks[i]) <= chunk_size
                  /\ i < Len(chunks) => Len(chunks[i]) = chunk_size
           /\ ClearText = <<>> => chunks = <<>>

\* a text of several chunks whose last chunk is shorter
C20_Witness ==
    /\ hpc = "readability"
    /\ Len(chunks) >= 2
    /\ Len(chunks[Len(chunks)]) < chunk_size
    /\ Len(chunks[1]) = chunk_size

(* ---------------- C16 - C19: the blocks ---------------- *)

\* the text of a block
BlockText(b) == Concat(b.rich_text)

BlocksBuilt == bpc \notin {"idle", "start"}

\* C16: every block emitted for a markdown text holds at most
\* MAX_RICH_TEXT_CHARS characters
C16_BlockSize ==
    BlocksBuilt
        => \A i \in 1..Len(children_blocks) :
               Len(BlockText(children_blocks[i])) <= MAX_RICH_TEXT_CHARS

\* the blocks of all parts, in order, without the cap
RECURSIVE AllBlocks(_)
AllBlocks(parts) ==
    IF parts = <<>> THEN <<>>
    ELSE convert_markdown_to_blocks(Head(parts)) \o AllBlocks(Tail(parts))

\* C17: at most MAX_CHILDREN_BLOCKS blocks are emitted, and they are the
\* first blocks of the sequence of all blocks, in order
C17_BlockCap ==
    BlocksBuilt
        => /\ Len(children_blocks) <= MAX_CHILDREN_BLOCKS
           /\ Len(children_blocks) <= Len(AllBlocks(md_parts))
           /\ children_blocks
                  = SubSeq(AllBlocks(md_parts), 1, Len(children_blocks))
           /\ Len(children_blocks) < MAX_CHILDREN_BLOCKS
                  => children_blocks = AllBlocks(md_parts)

\* more blocks than the cap allows, of which the first ones were emitted
C17_Witness ==
    /\ bpc = "built"
    /\ Len(AllBlocks(md_parts)) > MAX_CHILDREN_BLOCKS
    /\ Len(children_blocks) = MAX_CHILDREN_BLOCKS
    /\ children_blocks[1] # children_blocks[2]

\* the non-empty sentences of a text, stripped, in order
RECURSIVE StripNonEmpty(_)
StripNonEmpty(pieces) ==
    IF pieces = <<>> THEN <<>>
    ELSE IF strip(Head(pieces)) # <<>>
         THEN <<strip(Head(pieces))>> \o StripNonEmpty(Tail(pieces))
         ELSE StripNonEmpty(Tail(pieces))

SentencesOf(text) == StripNonEmpty(split(text, "."))

RECURSIVE SentencesOfAll(_)
SentencesOfAll(texts) ==
    IF texts = <<>> THEN <<>>
    ELSE SentencesOf(Head(texts)) \o SentencesOfAll(Tail(texts))

\* C18: the sentences of the text units are the sentences of the paragraphs
\* of the markdown text, each once and in the same order
C18_NoContentDropped ==
    BlocksBuilt
        => SentencesOfAll(md_parts) = SentencesOfAll(split(markdown, "\n"))

RECURSIVE TotalLen(_)
TotalLen(texts) ==
    IF texts = <<>> THEN 0 ELSE Len(Head(texts)) + TotalLen(Tail(texts))

\* C19: a markdown text of one paragraph whose sentences are longer than
\* MAX_RICH_TEXT_CHARS in total, L characters, is split into at least
\* ceil(L / MAX_RICH_TEXT_CHARS) units, each within the limit
C19_LongParagraphSplit ==
    LET L == TotalLen(SentencesOf(markdown))
    IN  (/\ BlocksBuilt
         /\ \A i \in 1..Len(markdown) : markdown[i] # "\n"
         /\ L > MAX_RICH_TEXT_CHARS)
            => /\ Len(md_parts) * MAX_RICH_TEXT_CHARS >= L
               /\ \A i \in 1..Len(md_parts) :
                      Len(md_parts[i]) <= MAX_RICH_TEXT_CHARS

(* ---------------- C21 - C29: the stages of handle_transcript ---------- *)

\* the run got past load_prompts: it cleaned and split its text
TextSplit == hpc \notin {"idle", "start"} /\ prompt_file = "valid"

\* C21: split_into_chunks raises exactly for the chunk sizes <= 0, whatever
\* the text; a run with a chunk size > 0 whose cleaned text is empty fails
\* with "Transcript is empty" and has called no transform
C21_ChunkingFailures ==
    /\ \A text \in {original_transcript, ClearText} :
           split_into_chunks(text, chunk_size).exc # "none" <=> chunk_size <= 0
    /\ TextSplit
          => /\ herr = "chunk_size must be > 0" <=> chunk_size <= 0
             /\ chunk_size <= 0 => hpc = "failed" /\ chat_calls = 0
             /\ (chunk_size > 0 /\ ClearText = <<>>)
                   => /\ hpc = "failed"
                      /\ herr = "Transcript is empty"
                      /\ chat_calls = 0
                      /\ chat_log = <<>>
                      /\ notion_pages = 0

\* a text of blanks only was refused as empty, with a chunk size > 0
C21_Witness ==
    /\ hpc = "failed"
    /\ herr = "Transcript is empty"
    /\ original_transcript # <<>>
    /\ chunk_size > 0
    /\ chat_calls = 0

\* a text that is not empty was refused for a chunk size < 0
C21_WitnessChunkSize ==
    /\ hpc = "failed"
    /\ herr = "chunk_size must be > 0"
    /\ ClearText # <<>>
    /\ chunk_size < 0

\* the calls of _chat a stage of the run made, in order
StageCalls(stage) == SelectSeq(chat_log, LAMBDA call : call.stage = stage)

\* the translation stage of the run is over and the run goes on
TranslationStageOver == hpc \in {"structure", "upload", "done"}

\* C22: the translation is called at most once, on the whole readable text
\* and only when the detected language is not Russian; a run that got past
\* the translation stage with another language made exactly that one call
\* and holds its result; a run of a Russian text makes no such call and has
\* no translation
C22_TranslationOnce ==
    /\ Len(StageCalls("translate")) <= 1
    /\ \A i \in 1..Len(StageCalls("translate")) :
           /\ StageCalls("translate")[i].text = readable_transcript
           /\ detected_language \in {"English", "German"}
    /\ detected_language = "Russian"
          => /\ StageCalls("translate") = <<>>
             /\ translation_ru = <<>>
             /\ hpc # "translate"
    /\ (TranslationStageOver /\ detected_language # "Russian")
          => /\ Len(StageCalls("translate")) = 1
             /\ StageCalls("translate")[1].exc = "none"
             /\ StageCalls("translate")[1].result = translation_ru
             /\ translation_ru # <<>>

\* a text of several chunks was translated with one call
C22_Witness ==
    /\ hpc = "done"
    /\ detected_language = "German"
    /\ Len(chunks) >= 2
    /\ Len(StageCalls("translate")) = 1
    /\ translation_ru = readable_transcript

\* a Russian text of several chunks went on without a translation
C22_WitnessRussian ==
    /\ hpc = "done"
    /\ detected_language = "Russian"
    /\ Len(chunks) >= 2
    /\ StageCalls("translate") = <<>>
    /\ translation_ru = <<>>

\* the run got a structured text: handle_transcript returned
StructureReturned == hpc \in {"upload", "done"}

\* C23: the structuring is called at most once, as the last call of the run:
\* after one readability call per chunk and after the translation, on the
\* translation when there is one and on the readable text otherwise; a run
\* that went on after it made exactly that one call, and no page is created
\* before it returned
C23_StructureOnceAtEnd ==
    /\ Len(StageCalls("structure")) <= 1
    /\ \A i \in 1..Len(chat_log) :
           chat_log[i].stage = "structure"
              => /\ i = Len(chat_log)
                 /\ Len(StageCalls("readability")) = Len(chunks)
                 /\ \A j \in 1..(i - 1) : chat_log[j].exc = "none"
                 /\ StageCalls("translate") # <<>> <=> translation_ru # <<>>
                 /\ chat_log[i].text
                       = IF translation_ru # <<>>
                         THEN StageCalls("translate")[1].result
                         ELSE readable_transcript
    /\ StructureReturned
          => /\ Len(StageCalls("structure")) = 1
             /\ StageCalls("structure")[1].exc = "none"
             /\ StageCalls("structure")[1].result = structured_markdown
             /\ structured_markdown # <<>>
    /\ (notion_pages > 0 /\ hpc # "idle")
          => /\ Len(StageCalls("structure")) = 1
             /\ StageCalls("structure")[1].exc = "none"
             /\ structured_markdown # <<>>

\* a translated text of several chunks was structured and uploaded
C23_Witness ==
    /\ hpc = "done"
    /\ Len(chunks) >= 2
    /\ translation_ru # <<>>
    /\ translation_ru # readable_transcript
    /\ Len(StageCalls("structure")) = 1
    /\ StageCalls("structure")[1].text = translation_ru
    /\ notion_pages = Len(Variants)

LanguageNames == {"English", "German", "Russian"}

\* C24: whatever the detector does, detect_language_name returns one of the
\* three language names, and "English" for a text that is empty, for a
\* detector that raises and for a code that is not mapped; a run whose
\* detector did that goes on with English, and a run that fails after the
\* detection fails in a later call
C24_DetectionNeverFails ==
    /\ \A text \in {<<>>, original_transcript, ClearText, readable_transcript} :
           \A outcome \in DetectOutcomes :
               /\ detect_language_name(text, outcome) \in LanguageNames
               /\ (strip(text) = <<>> \/ outcome \notin {"en", "de", "ru"})
                     => detect_language_name(text, outcome) = "English"
    /\ detect_outcome # "none"
          => /\ detected_language \in LanguageNames
             /\ detect_outcome \notin {"en", "de", "ru"}
                   => detected_language = "English"
             /\ hpc = "failed"
                   => \/ herr = "send_markdown_to_notion failed"
                      \/ /\ chat_log[Len(chat_log)].stage
                               \in {"translate", "structure"}
                         /\ \/ herr = chat_log[Len(chat_log)].exc
                            \/ /\ chat_log[Len(chat_log)].result = <<>>
                               /\ herr \in EmptyResultErrors

\* the detector raised, and the run went on as for an English text
C24_Witness ==
    /\ hpc = "done"
    /\ detect_outcome = "LangDetectException"
    /\ detected_language = "English"
    /\ translation_ru # <<>>

\* C25: no job of the started application fails because the prompt file
\* cannot be loaded
C25_PromptsLoadedAtStartup ==
    (cur = TextJob /\ hpc = "failed") => herr # "load_prompts failed"

\* the tail the run carries into its readability call number i
CarriedTail(i) ==
    IF i = 1
    THEN <<>>
    ELSE find_tail(StageCalls("readability")[i - 1].result).tail

\* C26: the readability calls of a run are its first calls, one per chunk in
\* the order of the chunks: call i is made after call i - 1 returned a text,
\* on the tail of that text followed by chunk i (on chunk 1 for the first
\* call); a run that left the loop made one call for every chunk
C26_OneCallPerChunkInOrder ==
    LET calls == StageCalls("readability")
    IN  /\ hpc # "idle" => Len(calls) <= Len(chunks)
        /\ \A i \in 1..Len(calls) :
               /\ chat_log[i] = calls[i]
               /\ calls[i].text = CarriedTail(i) \o chunks[i]
               /\ i > 1 => /\ calls[i - 1].exc = "none"
                           /\ calls[i - 1].result # <<>>
        /\ idx = Cardinality({i \in 1..Len(calls) :
                                 calls[i].exc = "none" /\ calls[i].result # <<>>})
        /\ hpc \in {"join", "translate", "structure", "upload", "done"}
              => /\ Len(calls) = Len(chunks)
                 /\ idx = Len(chunks)

\* the second call of a finished run got the tail of the first one in
\* front of its chunk
C26_Witness ==
    /\ hpc = "done"
    /\ Len(chunks) >= 2
    /\ Len(StageCalls("readability")) = Len(chunks)
    /\ CarriedTail(2) # <<>>
    /\ StageCalls("readability")[2].text = CarriedTail(2) \o chunks[2]

(* ---------------- C27: the split of find_tail ---------------- *)

\* the places of text where a sentence terminator stands: ". ", "? " or "! "
TerminatorPlaces(text) ==
    {i \in 1..(Len(text) - 1) : text[i] \in Terminators /\ text[i + 1] = " "}

\* C27: find_tail splits the result of _chat at its last sentence
\* terminator: the complete text is what stands up to and including the
\* terminator and the tail is what stands after it, both without the white
\* space around them; the tail holds no terminator, and the two together have
\* the characters of the text other than white space, in their order
C27_SplitAtLastTerminator ==
    (hpc = "tail_found" /\ TerminatorPlaces(chat_result) # {})
        => LET last == MaxOf(TerminatorPlaces(chat_result))
               complete_text == readable_parts[Len(readable_parts)]
           IN  /\ complete_text = strip(SubSeq(chat_result, 1, last + 1))
               /\ complete_text[Len(complete_text)] = chat_result[last]
               /\ current_tail
                     = strip(SubSeq(chat_result, last + 2, Len(chat_result)))
               /\ TerminatorPlaces(current_tail) = {}
               /\ NonWhitespace(complete_text \o current_tail)
                     = NonWhitespace(chat_result)

\* a text with two terminators was split at the second one
C27_Witness ==
    /\ hpc = "tail_found"
    /\ Cardinality(TerminatorPlaces(chat_result)) = 2
    /\ chat_result[MaxOf(TerminatorPlaces(chat_result))] = "?"
    /\ TerminatorPlaces(readable_parts[1]) # {}
    /\ current_tail # <<>>

(* ---------------- C28: no terminator, and the tail left over ----------- *)

\* the readability call number i of the run returned a text
CallReturned(i) ==
    /\ StageCalls("readability")[i].exc = "none"
    /\ StageCalls("readability")[i].result # <<>>

\* C28: a result of a readability call without a sentence terminator
\* becomes a part as a whole and leaves no tail for the next call or for the
\* end; when the loop is over a tail that is not empty is the last part and
\* the last segment of the readable text
C28_WholeOutputAndLeftoverTail ==
    LET calls == StageCalls("readability")
    IN  /\ \A i \in 1..Len(calls) :
               (CallReturned(i) /\ TerminatorPlaces(calls[i].result) = {})
                  => /\ readable_parts[i] = calls[i].result
                     /\ i < Len(calls) => calls[i + 1].text = chunks[i + 1]
                     /\ i = Len(chunks) => current_tail = <<>>
        /\ (detected_language # "none" /\ current_tail # <<>>)
              => /\ Len(readable_parts) = Len(chunks) + 1
                 /\ readable_parts[Len(readable_parts)] = current_tail
                 /\ Segments[Len(Segments)] = current_tail
                 /\ Len(readable_transcript) >= Len(current_tail)
                 /\ SubSeq(readable_transcript,
                           Len(readable_transcript) - Len(current_tail) + 1,
                           Len(readable_transcript)) = current_tail
        /\ (detected_language # "none" /\ current_tail = <<>>)
              => Len(readable_parts) = Len(chunks)

\* the last call of a finished run left a tail, which is the last segment
C28_Witness ==
    /\ hpc = "done"
    /\ Len(chunks) >= 2
    /\ current_tail # <<>>
    /\ readable_parts[Len(readable_parts)] = current_tail
    /\ Len(readable_parts) = Len(chunks) + 1

\* a result without a terminator became a part as a whole
C28_WitnessNoTerminator ==
    /\ hpc = "done"
    /\ Len(chunks) >= 2
    /\ TerminatorPlaces(StageCalls("readability")[1].result) = {}
    /\ readable_parts[1] = StageCalls("readability")[1].result
    /\ StageCalls("readability")[2].text = chunks[2]

(* ---------------- C29: no retry after a quota or rate limit failure ---- *)

QuotaOrRateLimit == {"OpenAIQuotaError", "OpenAIRateLimitError"}

\* a call of _chat of the job failed with one of the two errors: the run
\* holds the exception, or the worker got it from the run
FailedOnQuotaOrRateLimit ==
    \/ herr \in QuotaOrRateLimit
    \/ cur = TextJob /\ err.exc \in QuotaOrRateLimit

\* C29: from the failure of a _chat call with a quota or rate limit error
\* on, the job makes no call of _chat and creates no page, it is not in the
\* queue and is not started again; this stays so when the worker is done
\* with the job
C29_NoRetry ==
    /\ [](FailedOnQuotaOrRateLimit
             => /\ notion_pages = 0
                /\ hpc \in {"failed", "idle"}
                /\ queue = <<>>
                /\ started = <<1>>)
    /\ [][(FailedOnQuotaOrRateLimit \/ finished # <<>>)
             => /\ chat_calls' = chat_calls
                /\ notion_pages' = notion_pages
                /\ hpc' \in {"failed", "idle"}
                /\ queue' = <<>>
                /\ started' = <<1>>
                /\ threads' \subseteq threads]_vars

\* the second call of the job failed on the rate limit; the run is over
\* and the worker is about to tell the submitter
C29_Witness ==
    /\ cur = TextJob
    /\ err.exc = "OpenAIRateLimitError"
    /\ wpc = "report"
    /\ hpc = "idle"
    /\ threads = {}
    /\ chat_calls = 2
    /\ notion_pages = 0
    /\ queue = <<>>

(* ---------------- C30: the admission is one step ---------------- *)

\* C30: put_nowait never raises QueueFull: no reply of _enqueue_job is the
\* failure of the handler, the queue never holds more than maxsize jobs, and
\* the position told to an accepted submission is one of a queue that had a
\* free slot
C30_AdmissionIndivisible ==
    /\ lastReply.text # "error"
    /\ Len(queue) <= maxsize
    /\ lastReply.text \in {"accepted", "wait"} => lastReply.position < maxsize

\* a submission took the last free slot while the worker was busy
C30_Witness ==
    /\ Len(queue) = maxsize
    /\ wpc = "thread"
    /\ lastReply.text = "wait"
    /\ lastReply.position = maxsize - 1
    /\ queue[Len(queue)].chat_id = lastReply.chat
    /\ queue[Len(queue)].id = nextId - 1

(* ---------------- C31: the single worker ---------------- *)

\* the step is an accepted submission
Accepted == nextId' = nextId + 1

\* the step creates a worker task: bot_data["queue_worker_task"] is replaced
\* by a task that has not run yet
WorkerCreated == Accepted /\ wpc' = "get" /\ wcancel' = "no" /\ wpc # "get"

\* C31: bot_data holds the one worker task there is.  An accepted submission
\* leaves a worker that is alive as it is and replaces only a worker that
\* does not exist or is done; after it a worker is alive; no other step
\* creates a worker
C31_SingleWorker ==
    /\ [][Accepted
             => /\ WorkerAlive => UNCHANGED <<wpc, wcancel>>
                /\ ~WorkerAlive => wpc' = "get" /\ wcancel' = "no"
                /\ WorkerAlive']_vars
    /\ [][(~WorkerAlive /\ WorkerAlive') => Accepted]_vars
    /\ [](wpc = "none" => started = <<>> /\ nextId = 1)

\* the first worker was cancelled while it awaited a pipeline, which still
\* runs; a submission was accepted after that and a second worker was
\* created for it
C31_Witness ==
    /\ wpc = "get"
    /\ wcancel = "no"
    /\ cur = NoJob
    /\ threads # {}
    /\ Len(queue) = 1
    /\ lastReply.text = "accepted"

(* ---------------- C33: task_done ---------------- *)

\* the number of jobs the worker is processing
InProgress == IF cur # NoJob THEN 1 ELSE 0

\* the counter of unfinished tasks of the queue: the items put less the
\* calls of task_done
unfinished_tasks == (nextId - 1) - Len(finished)

\* C33: task_done was called once for every job the worker got and is done
\* with, in the order of the gets, and not for the job in progress or for a
\* job still waiting; the unfinished tasks of the queue are the jobs waiting
\* and the job in progress
C33_TaskDoneOncePerGet ==
    /\ Len(finished) <= Len(started)
    /\ finished = SubSeq(started, 1, Len(finished))
    /\ \A i, j \in 1..Len(finished) : finished[i] = finished[j] => i = j
    /\ Len(started) - Len(finished) = InProgress
    /\ cur # NoJob => cur.id = started[Len(started)]
    /\ \A i \in 1..Len(queue) :
           \A j \in 1..Len(finished) : queue[i].id # finished[j]
    /\ unfinished_tasks = Len(queue) + InProgress

\* the worker was cancelled while it processed its second job: task_done
\* was called for both jobs, a third one waits
C33_Witness ==
    /\ wpc = "done"
    /\ wcancel = "delivered"
    /\ finished = <<1, 2>>
    /\ threads # {}
    /\ Len(queue) = 1
    /\ unfinished_tasks = 1

(* ---------------- C35: the wait told to the submitter ---------------- *)

\* the job of the latest accepted submission still waits in the queue
LatestWaits ==
    /\ lastReply.text \in {"accepted", "wait"}
    /\ \E i \in 1..Len(queue) : queue[i].id = nextId - 1

\* C35: while the job of the latest accepted submission waits, the jobs
\* before it in the queue are jobs counted in the position it was told; a
\* submission that was told position 0 ("accepted") waits for no other job:
\* none is before it in the queue and the worker processes none
C35_WaitAccurate ==
    LatestWaits
        => LET place == CHOOSE i \in 1..Len(queue) : queue[i].id = nextId - 1
           IN  /\ place - 1 <= lastReply.position
               /\ lastReply.text = "accepted"
                     => /\ place = 1
                        /\ cur = NoJob

(* ---------------- C34: no document of a failed job ---------------- *)

\* C34: a run that failed, and a job whose failure the worker reports, has
\* created no page
C34_NoDocumentOfFailedJob ==
    /\ hpc = "failed" => notion_pages = 0
    /\ (cur = TextJob /\ err.exc # "none") => notion_pages = 0

(* ---------------- C32: a notification that fails ---------------- *)

\* a job of either kind was accepted, the worker took it from the queue and
\* awaits its pipeline in a thread
JobStarted(j) ==
    /\ queue = <<>>
    /\ nextId = 2
    /\ lastReply = AcceptedReply(1, 0)
    /\ wpc = "thread"
    /\ wcancel = "no"
    /\ cur = j
    /\ err = NoErr
    /\ res = NoErr
    /\ ni = 0
    /\ msgs = <<>>
    /\ threads = {j}
    /\ started = <<1>>
    /\ finished = <<>>
    /\ reported = 0

ReportInit ==
    /\ \E t \in JobTypes : JobStarted([id |-> 1, chat_id |-> 1, type |-> t])
    /\ HandlerIdle
    /\ BlockIdle
    /\ NotifyIdle
    /\ FetchIdle
    /\ WebhookIdle

NotificationRecorded == \E ok \in BOOLEAN : notification_recorded(ok)

ReportNext ==
    \/ PipelineEnds
    \/ ErrorMessageSent
    \/ FallbackMessageSent
    \/ NotificationRecorded

\* one job from the end of its pipeline to the end of its notifications
ReportSpec == ReportInit /\ [][ReportNext]_vars

\* the messages that tell the submitter that the job failed
FailureReports == {"no_subtitles", "quota", "rate_limit", "generic"}

\* the notifications of the current job, in the order of the code
Due == Notifications(cur.type, res)

\* C32: on the success path of a job, whatever notifications failed so far,
\* the notifications attempted are exactly the first ones of the job's list,
\* none of them is a failure report and no error is held; the step after any
\* notification, sent or failed, attempts the next one of the list, and after
\* the last one the job is marked done and the worker is back at queue.get()
C32_NotificationFailureTolerated ==
    /\ [](wpc = "notify"
            => /\ ni = Len(nlog) + 1
               /\ ni <= Len(Due)
               /\ msgs = SubSeq(Due, 1, ni)
               /\ \A i \in 1..Len(nlog) : nlog[i].msg = Due[i]
               /\ \A i \in 1..Len(msgs) : msgs[i] \notin FailureReports
               /\ err = NoErr)
    /\ [][wpc = "notify"
            => IF ni < Len(Due)
               THEN /\ wpc' = "notify"
                    /\ msgs' = Append(msgs, Due[ni + 1])
                    /\ UNCHANGED <<cur, res, err, finished>>
               ELSE /\ wpc' = "get"
                    /\ finished' = Append(finished, cur.id)
                    /\ Len(nlog') = Len(Due)]_vars

\* the links message of a youtube job failed, so did the broadcast, and the
\* files were attempted all the same: the job is done and the worker waits
C32_Witness ==
    /\ wpc = "get"
    /\ finished = <<1>>
    /\ Len(nlog) = 6
    /\ nlog[2] = [msg |-> "links", ok |-> FALSE]
    /\ nlog[3] = [msg |-> "channel", ok |-> FALSE]
    /\ nlog[6] = [msg |-> "file_translation", ok |-> TRUE]

(* ---------------- get_transcript.fetch_transcript ---------------- *)

\* the largest max_attempts a call is made with (the default is 3)
MaxAttempts == 3

\* the largest number of snippets transcript.fetch() returns
MaxSnippets == 2

\* fetch_transcript: the default of base_delay_sec
base_delay_sec == 5

\* the texts of the snippets
SnippetTexts == {<<>>, <<" ">>, <<"a">>, <<" ", "a">>}

SnippetLists == UNION {[1..n -> SnippetTexts] : n \in 0..MaxSnippets}

\* "\n".join(parts)
RECURSIVE join_lines(_)
join_lines(parts) ==
    IF parts = <<>> THEN <<>>
    ELSE IF Len(parts) = 1 THEN parts[1]
         ELSE parts[1] \o <<"\n">> \o join_lines(Tail(parts))

\* the loop of _join_snippets: the stripped texts that are not empty
RECURSIVE stripped_parts(_)
stripped_parts(snippets) ==
    IF snippets = <<>> THEN <<>>
    ELSE IF strip(Head(snippets)) # <<>>
         THEN <<strip(Head(snippets))>> \o stripped_parts(Tail(snippets))
         ELSE stripped_parts(Tail(snippets))

_join_snippets(snippets) == strip(join_lines(stripped_parts(snippets)))

\* what transcript_list and find_transcript may raise before the loop, and
\* what transcript.fetch() may raise besides the two errors of the first
\* except clause
OtherFetchErrors == {"TranscriptsDisabled"}

\* what one transcript.fetch() does: it returns snippets or raises
FetchOutcomes ==
    {[exc |-> e, items |-> <<>>] :
        e \in {"RetryError", "MaxRetryError"} \cup OtherFetchErrors}
    \cup {[exc |-> "none", items |-> it] : it \in SnippetLists}

\* the exception the try block of an attempt ends with ("none": it returns)
attempt_error(o) ==
    IF o.exc # "none" THEN o.exc
    ELSE IF _join_snippets(o.items) = <<>> THEN "ValueError" ELSE "none"

\* variant: every exception is handled by the first except clause
retryable_any(exc) == exc # "none"

\* except (requests.exceptions.RetryError, urllib3.exceptions.MaxRetryError)
retryable(exc) == exc \in {"RetryError", "MaxRetryError"}

\* variant: the last attempt is not told from the others
last_attempt_never(a) == FALSE

\* if attempt >= max_attempts: break
last_attempt(a) == a >= max_attempts

\* the RuntimeError raised after the loop
rate_limited_error == "RuntimeError: YouTube rate limited"

fetch_raises(exc) ==
    /\ fpc' = "raised"
    /\ fresult' = [exc |-> exc, text |-> <<>>]

\* the statements before the loop: the transcripts are listed and one is
\* found, or one of the two calls raises; range(1, max_attempts + 1) is not
\* empty, so the first attempt follows
fetch_transcript_start(exc) ==
    /\ fpc = "start"
    /\ IF exc = "none"
       THEN /\ fpc' = "fetch"
            /\ attempt' = 1
            /\ fresult' = fresult
       ELSE /\ fetch_raises(exc)
            /\ attempt' = attempt
    /\ UNCHANGED <<max_attempts, last_error, flog, sleeps>>
    /\ UNCHANGED <<qvars, hvars, bvars, nvars, wvars>>

\* one pass of the loop body up to its return, its raise, its break (which
\* the raise after the loop follows) or the call of time.sleep
fetch_attempt(o) ==
    /\ fpc = "fetch"
    /\ flog' = Append(flog, o)
    /\ IF attempt_error(o) = "none"
       THEN /\ fpc' = "returned"
            /\ fresult' = [exc |-> "none", text |-> _join_snippets(o.items)]
            /\ UNCHANGED <<last_error, sleeps>>
       ELSE IF retryable(attempt_error(o))
            THEN /\ last_error' = attempt_error(o)
                 /\ IF last_attempt(attempt)
                    THEN /\ fetch_raises(rate_limited_error)
                         /\ sleeps' = sleeps
                    ELSE /\ fpc' = "sleep"
                         /\ sleeps' = Append(sleeps, base_delay_sec * attempt)
                         /\ fresult' = fresult
            ELSE /\ fetch_raises(attempt_error(o))
                 /\ UNCHANGED <<last_error, sleeps>>
    /\ UNCHANGED <<max_attempts, attempt>>
    /\ UNCHANGED <<qvars, hvars, bvars, nvars, wvars>>

\* time.sleep returns and the for statement takes the next attempt, or the
\* range is used up and the statements after the loop raise
sleep_returns ==
    /\ fpc = "sleep"
    /\ IF attempt + 1 <= max_attempts
       THEN /\ attempt' = attempt + 1
            /\ fpc' = "fetch"
            /\ fresult' = fresult
       ELSE /\ fetch_raises(rate_limited_error)
            /\ attempt' = attempt
    /\ UNCHANGED <<max_attempts, last_error, flog, sleeps>>
    /\ UNCHANGED <<qvars, hvars, bvars, nvars, wvars>>

FetchTranscriptStart ==
    \E exc \in {"none", "RetryError"} \cup OtherFetchErrors :
        fetch_transcript_start(exc)

FetchAttempt == \E o \in FetchOutcomes : fetch_attempt(o)

\* a call of fetch_transcript with any max_attempts >= 1
FetchInit ==
    /\ QueueInit
    /\ HandlerIdle
    /\ BlockIdle
    /\ NotifyIdle
    /\ WebhookIdle
    /\ fpc = "start"
    /\ max_attempts \in 1..MaxAttempts
    /\ attempt = 0
    /\ last_error = "none"
    /\ flog = <<>>
    /\ sleeps = <<>>
    /\ fresult = [exc |-> "none", text |-> <<>>]

FetchNext ==
    \/ FetchTranscriptStart
    \/ FetchAttempt
    \/ sleep_returns

FetchSpec == FetchInit /\ [][FetchNext]_vars

\* fetch_transcript runs in the thread asyncio.to_thread gave it: every call
\* it makes returns or raises, and its next statement is executed
FetchLiveSpec == FetchSpec /\ WF_vars(FetchNext)

(* ---------------- C37, C38: the attempts of fetch_transcript ---------------- *)

FetchOver == fpc \in {"returned", "raised"}

\* the errors of a rate limit
RateLimitLike == {"RetryError", "MaxRetryError"}

RateLimitedAttempts(n) == \A i \in 1..n : attempt_error(flog[i]) \in RateLimitLike

\* C37: a call makes at most max_attempts attempts and ends; when it returns,
\* its last attempt is the first one that was not rate limited and the text
\* returned is the text of that attempt; the i-th sleep lasts
\* base_delay_sec * i, there is one sleep after each attempt that another
\* attempt follows and none after the last; and the call raises the
\* rate-limited RuntimeError exactly when max_attempts attempts were made
\* and all of them were rate limited
C37_BoundedRetries ==
    /\ [](/\ Len(flog) <= max_attempts
          /\ attempt <= max_attempts
          /\ \A i \in 1..Len(sleeps) : sleeps[i] = base_delay_sec * i
          /\ Len(sleeps) <= max_attempts - 1
          /\ fpc = "fetch" => Len(flog) = attempt - 1 /\ Len(sleeps) = attempt - 1
          /\ fpc = "sleep" => Len(flog) = attempt /\ Len(sleeps) = attempt
          /\ (FetchOver /\ flog # <<>>) => Len(sleeps) = Len(flog) - 1
          /\ fpc = "returned"
                => /\ flog # <<>>
                   /\ attempt_error(flog[Len(flog)]) = "none"
                   /\ RateLimitedAttempts(Len(flog) - 1)
                   /\ fresult.exc = "none"
                   /\ fresult.text = _join_snippets(flog[Len(flog)].items)
                   /\ fresult.text # <<>>
          /\ fresult.exc = rate_limited_error
                <=> /\ FetchOver
                    /\ Len(flog) = max_attempts
                    /\ RateLimitedAttempts(max_attempts))
    /\ <>FetchOver

\* two rate-limited attempts, each followed by its sleep, and a third attempt
\* that returns a transcript
C37_Witness ==
    /\ fpc = "returned"
    /\ max_attempts = 3
    /\ Len(flog) = 3
    /\ sleeps = <<5, 10>>
    /\ fresult.text = <<"a", "\n", "a">>

\* three rate-limited attempts of three: two sleeps and the RuntimeError
C37_WitnessRateLimited ==
    /\ fpc = "raised"
    /\ max_attempts = 3
    /\ Len(flog) = 3
    /\ sleeps = <<5, 10>>
    /\ fresult.exc = rate_limited_error

\* C38: every attempt but the last one made was rate limited (a RetryError or
\* a MaxRetryError); an attempt that ends with any other error, an empty
\* transcript included, is the last: the call has raised that very error
\* with no sleep after the attempt, and a call that is over takes no step
C38_OnlyRateLimitRetried ==
    /\ [](/\ RateLimitedAttempts(Len(flog) - 1)
          /\ (/\ flog # <<>>
              /\ attempt_error(flog[Len(flog)]) # "none"
              /\ attempt_error(flog[Len(flog)]) \notin RateLimitLike)
                => /\ fpc = "raised"
                   /\ fresult.exc = attempt_error(flog[Len(flog)])
                   /\ Len(sleeps) = Len(flog) - 1
                   /\ Len(flog) = attempt)
    /\ [][~FetchOver]_vars

\* the second attempt fetched snippets of white space only: ValueError is
\* raised after one sleep
C38_Witness ==
    /\ fpc = "raised"
    /\ Len(flog) = 2
    /\ flog[2] = [exc |-> "none", items |-> <<<<" ">>, <<>>>>]
    /\ fresult.exc = "ValueError"
    /\ sleeps = <<5>>
    /\ max_attempts = 3

(* ---------------- webhook: telegram_webhook and _BotRuntime ---------------- *)

\* the number of webhook requests followed
MaxRequests == 2

\* the value of the X-Telegram-Bot-Api-Secret-Token header ("": not sent)
Headers == {"", "secret", "wrong"}

\* what the body of a request is: a JSON object, other JSON, no JSON
Payloads == {"object", "array", "not_json"}

\* _load_webhook_config: the stripped TELEGRAM_WEBHOOK_SECRET_TOKEN or None
SecretTokens == {"none", "secret"}

\* variant: the header is not compared
authorised_always(h) == TRUE

\* not (cfg.secret_token and provided != cfg.secret_token)
authorised(h) == secret_token = "none" \/ h = secret_token

\* isinstance(request.get_json(silent=True), dict)
is_dict(p) == p = "object"

NotAnswered == [code |-> 0, exc |-> "none"]

\* request r is answered with code; exc is the exception telegram_webhook
\* caught and logged ("none": abort was called or "ok" returned)
answer(r, code, exc) ==
    /\ rpc' = [rpc EXCEPT ![r] = "answered"]
    /\ status' = [status EXCEPT ![r] = [code |-> code, exc |-> exc]]

\* a request arrives with header h and payload p: telegram_webhook up to its
\* call of submit_update
telegram_webhook(h, p) ==
    /\ Len(requests) < MaxRequests
    /\ requests' = Append(requests, [header |-> h, payload |-> p])
    /\ IF ~authorised(h)
       THEN /\ rpc' = Append(rpc, "answered")
            /\ status' = Append(status, [code |-> 403, exc |-> "none"])
       ELSE IF ~is_dict(p)
            THEN /\ rpc' = Append(rpc, "answered")
                 /\ status' = Append(status, [code |-> 400, exc |-> "none"])
            ELSE /\ rpc' = Append(rpc, "start")
                 /\ status' = Append(status, NotAnswered)
    /\ UNCHANGED <<secret_token, thread_started, thread_starts, startup, ready,
                   application, application_starts, update_queue>>
    /\ UNCHANGED <<qvars, hvars, bvars, nvars, fvars>>

\* start: if self._thread.is_alive(): return
start(r) ==
    /\ rpc[r] = "start"
    /\ rpc' = [rpc EXCEPT ![r] = IF thread_started THEN "submit" ELSE "thread_start"]
    /\ UNCHANGED <<secret_token, requests, status, thread_started, thread_starts,
                   startup, ready, application, application_starts, update_queue>>
    /\ UNCHANGED <<qvars, hvars, bvars, nvars, fvars>>

\* start: self._thread.start(); a Thread that was started raises RuntimeError,
\* another begins _run_loop, which schedules _startup
thread_start(r) ==
    /\ rpc[r] = "thread_start"
    /\ IF thread_started
       THEN /\ answer(r, 500, "threads can only be started once")
            /\ UNCHANGED <<thread_started, thread_starts, startup>>
       ELSE /\ thread_started' = TRUE
            /\ thread_starts' = thread_starts + 1
            /\ startup' = "running"
            /\ rpc' = [rpc EXCEPT ![r] = "wait"]
            /\ status' = status
    /\ UNCHANGED <<secret_token, requests, ready, application,
                   application_starts, update_queue>>
    /\ UNCHANGED <<qvars, hvars, bvars, nvars, fvars>>

\* start: self._ready.wait(timeout=30) returns True once the event is set,
\* and False when the 30 s pass first
ready_wait(r, timed_out) ==
    /\ rpc[r] = "wait"
    /\ IF ready
       THEN /\ rpc' = [rpc EXCEPT ![r] = "submit"]
            /\ status' = status
       ELSE /\ timed_out
            /\ answer(r, 500, "failed to start within 30s")
    /\ UNCHANGED <<secret_token, requests, thread_started, thread_starts,
                   startup, ready, application, application_starts, update_queue>>
    /\ UNCHANGED <<qvars, hvars, bvars, nvars, fvars>>

\* submit_update after self.start(): the application is looked at, and the
\* update is built and put into update_queue (ok) or one of the calls raises
submit_update(r, ok) ==
    /\ rpc[r] = "submit"
    /\ IF application = "none"
       THEN /\ answer(r, 500, "application is not available")
            /\ update_queue' = update_queue
       ELSE IF ok
            THEN /\ update_queue' = Append(update_queue, r)
                 /\ answer(r, 200, "none")
            ELSE /\ answer(r, 500, "update not submitted")
                 /\ update_queue' = update_queue
    /\ UNCHANGED <<secret_token, requests, thread_started, thread_starts,
                   startup, ready, application, application_starts>>
    /\ UNCHANGED <<qvars, hvars, bvars, nvars, fvars>>

\* _startup on the loop of the thread: the application is built, initialized
\* and started (ok) or one of the three raises; _ready is set either way
_startup(ok) ==
    /\ startup = "running"
    /\ startup' = IF ok THEN "started" ELSE "failed"
    /\ application' = IF ok THEN "application" ELSE application
    /\ application_starts' = IF ok THEN application_starts + 1 ELSE application_starts
    /\ ready' = TRUE
    /\ UNCHANGED <<secret_token, requests, rpc, status, thread_started,
                   thread_starts, update_queue>>
    /\ UNCHANGED <<qvars, hvars, bvars, nvars, fvars>>

TelegramWebhook == \E h \in Headers : \E p \in Payloads : telegram_webhook(h, p)

Start == \E r \in 1..Len(requests) : start(r)

ThreadStart == \E r \in 1..Len(requests) : thread_start(r)

ReadyWait == \E r \in 1..Len(requests) : \E timed_out \in BOOLEAN : ready_wait(r, timed_out)

SubmitUpdate == \E r \in 1..Len(requests) : \E ok \in BOOLEAN : submit_update(r, ok)

Startup == \E ok \in BOOLEAN : _startup(ok)

\* _RUNTIME = _BotRuntime() and create_wsgi_application with either
\* configuration of the secret token; no request yet
WebhookInit ==
    /\ QueueInit
    /\ HandlerIdle
    /\ BlockIdle
    /\ NotifyIdle
    /\ FetchIdle
    /\ secret_token \in SecretTokens
    /\ requests = <<>>
    /\ rpc = <<>>
    /\ status = <<>>
    /\ thread_started = FALSE
    /\ thread_starts = 0
    /\ startup = "none"
    /\ ready = FALSE
    /\ application = "none"
    /\ application_starts = 0
    /\ update_queue = <<>>

WebhookNext ==
    \/ TelegramWebhook
    \/ Start
    \/ ThreadStart
    \/ ReadyWait
    \/ SubmitUpdate
    \/ Startup

\* the requests run in the threads of the WSGI server, _startup in the thread
\* of _BotRuntime
WebhookSpec == WebhookInit /\ [][WebhookNext]_vars

(* ---------------- C36: concurrent requests and the start of the runtime ---------------- *)

\* C36: the thread and the application are started at most once, and a
\* request whose start() found the thread started by another request looks
\* at the application only after _startup has finished, so no request fails
\* with "application is not available" while the application is starting or
\* after it has started
C36_StartedOnceAndAwaited ==
    /\ thread_starts <= 1
    /\ application_starts <= 1
    /\ \A r \in 1..Len(requests) :
          /\ rpc[r] = "submit" => ready
          /\ status[r].exc = "application is not available" => startup = "failed"

(* ---------------- C39: the requests that are forwarded ---------------- *)

Forwarded(r) == \E i \in 1..Len(update_queue) : update_queue[i] = r

WrongSecret(r) == secret_token # "none" /\ requests[r].header # secret_token

\* C39: a request that carries another secret token than the configured one
\* is answered 403, a request with the right token (or with none configured)
\* whose payload is not a JSON object is answered 400, and neither is ever
\* past the checks or in update_queue; a request is answered 200 exactly when
\* its update was put into update_queue, and each update is put once
C39_OnlyAuthorisedWellFormed ==
    /\ Len(rpc) = Len(requests) /\ Len(status) = Len(requests)
    /\ \A r \in 1..Len(requests) :
          /\ WrongSecret(r)
                => /\ rpc[r] = "answered"
                   /\ status[r].code = 403
                   /\ ~Forwarded(r)
          /\ (~WrongSecret(r) /\ requests[r].payload # "object")
                => /\ rpc[r] = "answered"
                   /\ status[r].code = 400
                   /\ ~Forwarded(r)
          /\ Forwarded(r) <=> status[r].code = 200
          /\ status[r].code \in {0, 200, 400, 403, 500}
          /\ status[r].code = 0 <=> rpc[r] # "answered"
    /\ \A i, j \in 1..Len(update_queue) : update_queue[i] = update_queue[j] => i = j

\* with a secret configured, a request without the header was answered 403 and
\* a request with the secret and a JSON array 400, while the update of nobody
\* was put
C39_Witness ==
    /\ secret_token = "secret"
    /\ Len(requests) = 2
    /\ requests[1] = [header |-> "", payload |-> "object"]
    /\ status[1].code = 403
    /\ requests[2] = [header |-> "secret", payload |-> "array"]
    /\ status[2].code = 400
    /\ update_queue = <<>>
    /\ ~thread_started

\* the same with a forwarded update next to a rejected one
C39_WitnessForwarded ==
    /\ secret_token = "secret"
    /\ Len(requests) = 2
    /\ requests[1] = [header |-> "wrong", payload |-> "object"]
    /\ status[1].code = 403
    /\ requests[2] = [header |-> "secret", payload |-> "object"]
    /\ status[2].code = 200
    /\ update_queue = <<2>>

====
